---- MODULE Spec2Model ----
(***************************************************************************)
(* Model of the QueryMate playground pipeline.                             *)
(*                                                                         *)
(* Part 1: the two E2B execute routes                                      *)
(*   POST /api/playground/execute         (buffered, src/unnamed/part_005) *)
(*   POST /api/playground/execute/stream  (streaming, SSE)                 *)
(* Each request is an async handler; a step of the model is the code that  *)
(* runs between two awaits.  The remote sandbox API (create, makeDir,      *)
(* write, runCode, kill) is the environment: every pending call returns or *)
(* throws nondeterministically.                                            *)
(*                                                                         *)
(* Part 2: parseArtifact (src/unnamed/part_013), a pure function on text,  *)
(* modelled on sequences of characters.                                    *)
(***************************************************************************)
EXTENDS Integers, Sequences, FiniteSets, TLC

\* ------------------------------------------------------------------ bounds
NumReq == 2
MaxFiles == 2
MaxLogs == 1
MaxParseFiles == 2
MaxPreviewFiles == 2
MaxImports == 2
NumCalls == 3
MaxChunks == 2
MaxTeardowns == 2
MaxRuns == 2
MaxClientFiles == 2
MaxStreamChunks == 2
MaxGenerations == 2
MaxExecutions == 2

\* --------------------------------------------------------------- variables
VARIABLES
  task,     \* task[r]: the state of request handler r (locals of POST / start)
  envs,     \* envs[e]: the request that created remote environment e
  origin,   \* parseArtifact: the JSON value and wrapping the input was built from
  text,     \* parseArtifact: the input text (the LLM output)
  parsed,   \* parseArtifact: the returned value (or NotRun before the call)
  shown,    \* preview: the artifact handed to the preview (a parsed value)
  preview,  \* preview: the outcome of a call of generatePreviewHtml
  frame,    \* preview: what a component put into its iframe (srcDoc)
  wc,       \* WebContainer manager: module and window variables, boots, calls
  live,     \* one runInWebContainer call and the handle it returned
  wcPreview, \* WebContainerPreview: its refs, the runs it started, their processes
  reply,    \* generate route: the request received and the response returned
  client    \* usePlayground: its state and the streams it is reading

vars ==
  <<task, envs, origin, text, parsed, shown, preview, frame, wc, live, wcPreview, reply,
    client>>
uiVars == <<wcPreview, reply, client>>
wcVars == <<wc, live>>
execVars == <<task, envs>>
parseVars == <<origin, text, parsed>>
previewVars == <<shown, preview, frame>>

Req == 1..NumReq

\* ------------------------------------------------------------------- types
FRONTEND_LANGUAGES == {"html", "css", "javascript", "react", "vue"}
BACKEND_LANGUAGES == {"python", "node", "bash"}
ArtifactLanguage ==
  {"html", "css", "javascript", "react", "vue", "python", "node", "bash"}
ArtifactType == {"frontend", "backend", "hybrid"}

isFrontendLanguage(lang) == lang \in FRONTEND_LANGUAGES

isBackendLanguageNoBash(lang) == lang \in {"python", "node"}
isBackendLanguage(lang) == lang \in BACKEND_LANGUAGES

\* A path is the sequence of its "/"-separated segments.
ArtifactFile ==
  { [path |-> <<"main.py">>, content |-> "print(1)"],
    [path |-> <<"src", "util.py">>, content |-> "x = 2"] }

SeqUpTo(S, n) == UNION { [1..k -> S] : k \in 0..n }

Artifact ==
  [artifact_type : ArtifactType, language : ArtifactLanguage,
   files : SeqUpTo(ArtifactFile, MaxFiles)]

NoArtifact == [artifact_type |-> "backend", language |-> "python", files |-> <<>>]

\* What a handler receives: the session, the request body, the environment.
\* body = "invalid" : request.json() throws; body = "empty" : no artifact key.
ExecuteRequest ==
  { q \in [auth : BOOLEAN, body : {"invalid", "empty", "artifact"},
           artifact : Artifact, apiKey : BOOLEAN] :
      q.body # "artifact" => q.artifact = NoArtifact }

\* ------------------------------------------------------- remote call log
NoArg == [path |-> <<>>, content |-> "", language |-> ""]

Call(op, env, arg) == [op |-> op, env |-> env, arg |-> arg, res |-> "pending"]

\* the handler calls a remote operation and awaits it
Invoke(st, op, arg, at) ==
  [st EXCEPT !.calls = Append(@, Call(op, st.sandbox, arg)), !.pc = at]

\* the awaited call returns ("ok") or rejects ("throw")
Returned(st, res) == [st EXCEPT !.calls[Len(st.calls)].res = res]

\* ------------------------------------------------------------ SSE chunks
Chunk(type, content) == [type |-> type, content |-> content]

\* sendEvent applied to a list of events in one synchronous stretch:
\* controller.enqueue throws once the consumer has cancelled the stream, so
\* either every event is enqueued or the first one throws.
sendEvent(chunks, cancelled, evs) == IF cancelled THEN chunks ELSE chunks \o evs
sendThrows(cancelled, evs) == cancelled /\ Len(evs) > 0

ErrMsg == "sandbox error"
ClosedMsg == "Invalid state: Controller is already closed"

\* --------------------------------------------------------- stream route
StreamFinallyUnlessCancelled(st) ==
  IF st.sandbox # 0 /\ ~st.cancelled
    THEN Invoke(st, "kill", NoArg, "kill")
    ELSE [st EXCEPT !.pc = "done"]

\* finally { if (sandbox) await sandbox.kill(); controller.close() }
StreamFinally(st) ==
  IF st.sandbox # 0
    THEN Invoke(st, "kill", NoArg, "kill")
    ELSE [st EXCEPT !.pc = "done"]

StreamCatchNoDone(st, msg) ==
  StreamFinally([st EXCEPT !.chunks =
     sendEvent(@, st.cancelled, << Chunk("error", msg) >>)])

\* catch (error) { sendEvent("error", ...); sendEvent("done", ...) } finally
StreamCatch(st, msg) ==
  StreamFinally([st EXCEPT !.chunks =
     sendEvent(@, st.cancelled,
               << Chunk("error", msg), Chunk("done", "Execution failed") >>)])

\* ------------------------------------------------------- buffered route
NoResult == [success |-> FALSE, stdout |-> <<>>, stderr |-> <<>>,
             error |-> "", exitCode |-> -1]
NoResponse == [status |-> 0, success |-> FALSE, hasResult |-> FALSE,
               result |-> NoResult, error |-> ""]

Reject(status, msg) ==
  [status |-> status, success |-> FALSE, hasResult |-> FALSE,
   result |-> NoResult, error |-> msg]

BufFinallyNoKill(st) == [st EXCEPT !.pc = "done"]

\* finally { if (sandbox) await sandbox.kill() }
BufFinally(st) ==
  IF st.sandbox # 0
    THEN Invoke(st, "kill", NoArg, "kill")
    ELSE [st EXCEPT !.pc = "done"]

\* POST catch: NextResponse.json({success:false, error}, {status:500})
BufCatch(st, msg) == BufFinally([st EXCEPT !.response = Reject(500, msg)])

\* POST: return NextResponse.json({ success: result.success, result })
BufRespond(st, result) ==
  BufFinally([st EXCEPT !.response =
     [status |-> 200, success |-> result.success, hasResult |-> TRUE,
      result |-> result, error |-> ""]])

ExecCatchRethrow(st, msg) == BufCatch(st, msg)

\* executeInSandbox catch: the failure is returned as a result
ExecCatch(st, msg) ==
  BufRespond(st, [success |-> FALSE, stdout |-> <<>>, stderr |-> <<>>,
                  error |-> msg, exitCode |-> 1])

\* an exception inside the try block that follows create-environment
Throw(st, msg) ==
  IF st.route = "stream" THEN StreamCatch(st, msg) ELSE ExecCatch(st, msg)

\* ------------------------------------------------- runCode and its result
\* What sandbox.runCode resolves to: text, logs.stdout, logs.stderr, error.
LogLines(line) == { [i \in 1..n |-> line] : n \in 0..MaxLogs }

Execution ==
  [text : {"", "42"}, stdout : LogLines("out"), stderr : LogLines("err"),
   error : {"none", "plain", "traceback"}]

NoExecution == [text |-> "", stdout |-> <<>>, stderr |-> <<>>, error |-> "none"]

\* language option of runCode
runLanguage(artifact) == IF artifact.language = "node" THEN "js" ELSE "python"

ExecutionResultAlwaysOk(execution) ==
  [success |-> TRUE,
   stdout |-> (IF execution.text # "" THEN << execution.text >> ELSE <<>>)
                \o execution.stdout,
   stderr |-> execution.stderr,
   error |-> "",
   exitCode |-> 0]

\* executeInSandbox, after runCode resolved: the ExecutionResult it returns
ExecutionResult(execution) ==
  [success |-> execution.error = "none",
   stdout |-> (IF execution.text # "" THEN << execution.text >> ELSE <<>>)
                \o execution.stdout,
   stderr |-> (IF execution.error # "none" THEN << "Name: value" >> ELSE <<>>)
                \o (IF execution.error = "traceback" THEN << "Traceback" >> ELSE <<>>)
                \o execution.stderr,
   error |-> IF execution.error # "none" THEN "value" ELSE "",
   exitCode |-> IF execution.error # "none" THEN 1 ELSE 0]

AsChunks(type, lines) == [i \in 1..Len(lines) |-> Chunk(type, lines[i])]

RunEventsErrorFirst(execution) ==
     (IF execution.error # "none"
        THEN << Chunk("error", "Name: value") >> ELSE <<>>)
  \o (IF execution.text # "" THEN << Chunk("stdout", execution.text) >> ELSE <<>>)
  \o AsChunks("stdout", execution.stdout)
  \o AsChunks("stderr", execution.stderr)
  \o (IF execution.error = "traceback"
        THEN << Chunk("stderr", "Traceback") >> ELSE <<>>)
  \o << Chunk("done", IF execution.error # "none" THEN "Execution failed"
                                                  ELSE "Execution complete") >>

\* stream route, after runCode resolved: the events sent up to "done"
RunEvents(execution) ==
     (IF execution.text # "" THEN << Chunk("stdout", execution.text) >> ELSE <<>>)
  \o AsChunks("stdout", execution.stdout)
  \o AsChunks("stderr", execution.stderr)
  \o (IF execution.error # "none"
        THEN << Chunk("error", "Name: value") >> ELSE <<>>)
  \o (IF execution.error = "traceback"
        THEN << Chunk("stderr", "Traceback") >> ELSE <<>>)
  \o << Chunk("done", IF execution.error # "none" THEN "Execution failed"
                                                  ELSE "Execution complete") >>

\* ------------------------------------------------- writeFilesToSandbox
\* file.path.split("/").slice(0, -1).join("/")
dirPath(path) == SubSeq(path, 1, Len(path) - 1)

\* the code after writeFilesToSandbox returned: pick files[0], call runCode
AfterWrites(st) ==
  LET files == st.artifact.files
      arg == [path |-> <<>>, content |-> files[1].content,
              language |-> runLanguage(st.artifact)]
  IN  IF Len(files) = 0 THEN Throw(st, "No files to execute")
      ELSE IF st.route = "stream"
        THEN LET ev == << Chunk("status", "Executing code...") >>
             IN  IF sendThrows(st.cancelled, ev)
                   THEN StreamCatch(st, ClosedMsg)
                   ELSE Invoke([st EXCEPT !.chunks = sendEvent(@, st.cancelled, ev)],
                               "runCode", arg, "run")
        ELSE Invoke(st, "runCode", arg, "run")

\* one iteration of  for (const file of files)  starting at file i
WriteFile(st, i) ==
  LET files == st.artifact.files
  IN  IF i > Len(files) THEN AfterWrites(st)
      ELSE IF dirPath(files[i].path) # <<>>
        THEN Invoke([st EXCEPT !.fileIdx = i], "makeDir",
                    [path |-> dirPath(files[i].path), content |-> "", language |-> ""],
                    "mkdir")
        ELSE Invoke([st EXCEPT !.fileIdx = i], "write",
                    [path |-> files[i].path, content |-> files[i].content,
                     language |-> ""],
                    "write")

\* await sandbox.files.makeDir(dirPath).catch(() => {}) ; then the write
OnMkdirReturn(st, ok) ==
  LET f == st.artifact.files[st.fileIdx]
  IN  Invoke(Returned(st, IF ok THEN "ok" ELSE "throw"), "write",
             [path |-> f.path, content |-> f.content, language |-> ""], "write")

OnWriteReturnIgnoreFailure(st, ok) ==
  WriteFile(Returned(st, IF ok THEN "ok" ELSE "throw"), st.fileIdx + 1)

\* await sandbox.files.write(file.path, file.content)
OnWriteReturn(st, ok) ==
  IF ok THEN WriteFile(Returned(st, "ok"), st.fileIdx + 1)
        ELSE Throw(Returned(st, "throw"), ErrMsg)

\* ----------------------------------------------------- precondition checks
PrecheckNoFrontendCheck(route, q) ==
  IF ~q.auth THEN Reject(401, "Unauthorized")
  ELSE IF q.body = "invalid"
    THEN (IF route = "stream" THEN Reject(400, "Invalid JSON") ELSE Reject(500, ErrMsg))
  ELSE IF q.body = "empty" THEN Reject(400, "Artifact is required")
  ELSE IF ~q.apiKey THEN Reject(500, "E2B API key not configured")
  ELSE NoResponse

\* POST up to the API-key check: the early return, or NoResponse to go on
Precheck(route, q) ==
  IF ~q.auth THEN Reject(401, "Unauthorized")
  ELSE IF q.body = "invalid"
    THEN (IF route = "stream" THEN Reject(400, "Invalid JSON") ELSE Reject(500, ErrMsg))
  ELSE IF q.body = "empty" THEN Reject(400, "Artifact is required")
  ELSE IF q.artifact.artifact_type = "frontend" \/ isFrontendLanguage(q.artifact.language)
    THEN Reject(400, "Frontend code runs in browser, not E2B")
  ELSE IF ~q.apiKey THEN Reject(500, "E2B API key not configured")
  ELSE NoResponse

\* ------------------------------------------------------ handler steps
IdleTask ==
  [route |-> "none", request |-> [auth |-> FALSE, body |-> "empty",
                                  artifact |-> NoArtifact, apiKey |-> FALSE],
   artifact |-> NoArtifact, pc |-> "idle", sandbox |-> 0, fileIdx |-> 0,
   calls |-> <<>>, chunks |-> <<>>, response |-> NoResponse, cancelled |-> FALSE,
   execution |-> NoExecution]

\* the streaming Response (status 200, body = the stream; no JSON body)
StreamResponse == [status |-> 200, success |-> FALSE, hasResult |-> FALSE,
                   result |-> NoResult, error |-> ""]

\* POST from its first line to the first await of a remote call
OnRequest(route, q) ==
  LET st == [IdleTask EXCEPT !.route = route, !.request = q, !.artifact = q.artifact]
      pre == Precheck(route, q)
  IN  IF pre.status # 0 THEN [st EXCEPT !.response = pre, !.pc = "done"]
      ELSE IF route = "stream"
        THEN Invoke([st EXCEPT !.response = StreamResponse,
                               !.chunks = << Chunk("status", "Creating sandbox...") >>],
                    "create", NoArg, "create")
        ELSE Invoke(st, "create", NoArg, "create")

OnCreateReturnPooled(st, ok, env) ==
  IF ~ok
    THEN (IF st.route = "stream" THEN StreamCatch(Returned(st, "throw"), ErrMsg)
                                 ELSE BufCatch(Returned(st, "throw"), ErrMsg))
    ELSE LET s1 == [Returned(st, "ok") EXCEPT !.sandbox = 1,
                                              !.calls[Len(st.calls)].env = 1]
         IN  IF st.route = "stream"
               THEN (IF st.cancelled THEN StreamCatch(s1, ClosedMsg)
                     ELSE WriteFile([s1 EXCEPT !.chunks = sendEvent(@, FALSE,
                                       << Chunk("status", "Writing files...") >>)], 1))
               ELSE WriteFile(s1, 1)

\* sandbox = await CodeInterpreter.create(...) resolves to env, or rejects
OnCreateReturn(st, ok, env) ==
  IF ~ok
    THEN (IF st.route = "stream" THEN StreamCatch(Returned(st, "throw"), ErrMsg)
                                 ELSE BufCatch(Returned(st, "throw"), ErrMsg))
    ELSE LET s1 == [Returned(st, "ok") EXCEPT !.sandbox = env,
                                              !.calls[Len(st.calls)].env = env]
         IN  IF st.route = "stream"
               THEN (IF st.cancelled THEN StreamCatch(s1, ClosedMsg)
                     ELSE WriteFile([s1 EXCEPT !.chunks = sendEvent(@, FALSE,
                                       << Chunk("status", "Writing files...") >>)], 1))
               ELSE WriteFile(s1, 1)

\* await sandbox.runCode(...) resolves to an execution
OnRunReturn(st, execution) ==
  LET s1 == [Returned(st, "ok") EXCEPT !.execution = execution]
  IN  IF st.route = "stream"
        THEN (IF sendThrows(st.cancelled, RunEvents(execution))
                THEN StreamCatch(s1, ClosedMsg)
                ELSE StreamFinally([s1 EXCEPT !.chunks =
                        sendEvent(@, st.cancelled, RunEvents(execution))]))
        ELSE BufRespond(s1, ExecutionResult(execution))

\* await sandbox.runCode(...) rejects
OnRunThrow(st) == Throw(Returned(st, "throw"), ErrMsg)

\* await sandbox.kill().catch(console.error) is over; stream: controller.close()
OnKillReturn(st, ok) ==
  [Returned(st, IF ok THEN "ok" ELSE "throw") EXCEPT !.pc = "done"]

\* ------------------------------------------------------------- actions
Receive(r, Requests) ==
  /\ task[r].pc = "idle"
  /\ \E route \in {"buffered", "stream"}, q \in Requests :
       task' = [task EXCEPT ![r] = OnRequest(route, q)]
  /\ UNCHANGED <<envs, parseVars, previewVars, wcVars, uiVars>>

CreateReturn(r) ==
  /\ task[r].pc = "create"
  /\ \E ok \in BOOLEAN :
       /\ task' = [task EXCEPT ![r] = OnCreateReturn(task[r], ok, Len(envs) + 1)]
       /\ envs' = IF ok THEN Append(envs, r) ELSE envs
  /\ UNCHANGED <<parseVars, previewVars, wcVars, uiVars>>

MkdirReturn(r, Outcomes) ==
  /\ task[r].pc = "mkdir"
  /\ \E ok \in Outcomes : task' = [task EXCEPT ![r] = OnMkdirReturn(task[r], ok)]
  /\ UNCHANGED <<envs, parseVars, previewVars, wcVars, uiVars>>

WriteReturn(r) ==
  /\ task[r].pc = "write"
  /\ \E ok \in BOOLEAN : task' = [task EXCEPT ![r] = OnWriteReturn(task[r], ok)]
  /\ UNCHANGED <<envs, parseVars, previewVars, wcVars, uiVars>>

RunReturn(r, Executions) ==
  /\ task[r].pc = "run"
  /\ \E execution \in Executions :
       task' = [task EXCEPT ![r] = OnRunReturn(task[r], execution)]
  /\ UNCHANGED <<envs, parseVars, previewVars, wcVars, uiVars>>

RunThrow(r) ==
  /\ task[r].pc = "run"
  /\ task' = [task EXCEPT ![r] = OnRunThrow(task[r])]
  /\ UNCHANGED <<envs, parseVars, previewVars, wcVars, uiVars>>

KillReturn(r, Outcomes) ==
  /\ task[r].pc = "kill"
  /\ \E ok \in Outcomes : task' = [task EXCEPT ![r] = OnKillReturn(task[r], ok)]
  /\ UNCHANGED <<envs, parseVars, previewVars, wcVars, uiVars>>

\* the consumer of the stream cancels (aborts the fetch, disconnects)
Cancel(r) ==
  /\ task[r].route = "stream"
  /\ task[r].pc \in {"create", "mkdir", "write", "run", "kill"}
  /\ ~task[r].cancelled
  /\ task' = [task EXCEPT ![r].cancelled = TRUE]
  /\ UNCHANGED <<envs, parseVars, previewVars, wcVars, uiVars>>

NotRun == [t |-> "not run", v |-> <<>>]
NoOrigin == [value |-> NotRun, wrap |-> "none", valid |-> FALSE]
NoPreview == [threw |-> FALSE, ran |-> FALSE, doc |-> <<>>]
NoFrame == [by |-> "none", crashed |-> FALSE, srcDoc |-> <<>>, error |-> FALSE]

\* getWebContainer calls; a promise is the number of the boot it belongs
\* to, an instance is the number of the boot that produced it, 0 is null.
\* foreign: a container is live that another copy of the module booted (its
\* instance is -1)
Calls == 1..NumCalls
NoContainer ==
  [webContainerInstance |-> 0, bootPromise |-> 0, activeProcess |-> "none",
   window |-> [instance |-> 0, promise |-> 0], foreign |-> FALSE,
   boots |-> <<>>, microtasks |-> <<>>,
   calls |-> [c \in Calls |-> [pc |-> "idle", awaiting |-> 0, result |-> 0]]]
IdleRun ==
  [pc |-> "idle", statuses |-> <<>>, install |-> "none", emitted |-> 0,
   pending |-> <<>>, piped |-> FALSE, listening |-> FALSE,
   serverReadyCalled |-> FALSE, kills |-> [dev |-> 0, previous |-> 0],
   teardowns |-> 0, cleanups |-> 0]

\* WebContainerPreview after its first render, before its effects ran; a run
\* is one runInWebContainer call with the dev server it spawns
Runs == 1..MaxRuns
Status(stage, message) == [stage |-> stage, message |-> message]
NoRun ==
  [pc |-> "idle", inst |-> 0, dev |-> "none", listening |-> FALSE,
   serverReadyCalled |-> FALSE, raised |-> FALSE, ready |-> 0, foreign |-> FALSE,
   late |-> FALSE, torn |-> FALSE, orphan |-> FALSE]
NoPanel ==
  [inst |-> 1, mounted |-> TRUE, effectRan |-> FALSE, isStartingRef |-> FALSE,
   teardownRef |-> 0, status |-> Status("idle", ""), previewUrl |-> 0,
   activeProcess |-> 0, runs |-> [r \in Runs |-> NoRun]]

\* generate route: the response body and status; artifact, error and usage
\* are Undefined, "" and <<>> when the key is absent
GenerateResponse(status, artifact, error, usage) ==
  [status |-> status, success |-> status = 200, artifact |-> artifact, error |-> error,
   usage |-> usage]
NoReply ==
  [pc |-> "idle", session |-> "none", body |-> "invalid", llmCalls |-> 0,
   text |-> <<>>, usage |-> <<>>,
   response |-> GenerateResponse(0, [t |-> "undefined", v |-> <<>>], "", <<>>)]

\* usePlayground: the hook's state after the first render.  `replaced` counts
\* the artifacts installed by generateArtifact; logsFrom and resultFrom record
\* for each log entry and for the result the value of `replaced` when the
\* execution that produced it started (history, not program state).
NoExecutionResult == [set |-> FALSE, success |-> FALSE, error |-> ""]
NoStream == [pc |-> "idle", emitted |-> <<>>, wire |-> <<>>, buffer |-> <<>>, started |-> 0]
NoClient ==
  [artifact |-> [isNull |-> TRUE, files |-> <<>>], fileTree |-> <<>>,
   executionLogs |-> <<>>, executionResult |-> NoExecutionResult,
   isGenerating |-> FALSE, isExecuting |-> FALSE, error |-> "",
   stream |-> NoStream, replaced |-> 0, executions |-> 0,
   logsFrom |-> <<>>, resultFrom |-> 0]

\* ------------------------------------------- one request, every input
Init ==
  /\ task = [r \in Req |-> IdleTask]
  /\ envs = <<>>
  /\ origin = NoOrigin
  /\ text = <<>>
  /\ parsed = NotRun
  /\ shown = NotRun
  /\ preview = NoPreview
  /\ frame = NoFrame
  /\ wc = NoContainer
  /\ live = IdleRun
  /\ wcPreview = NoPanel
  /\ reply = NoReply
  /\ client = NoClient

Next ==
  \/ Receive(1, ExecuteRequest)
  \/ CreateReturn(1)
  \/ MkdirReturn(1, BOOLEAN)
  \/ WriteReturn(1)
  \/ RunReturn(1, Execution)
  \/ RunThrow(1)
  \/ KillReturn(1, BOOLEAN)
  \/ Cancel(1)

Spec == Init /\ [][Next]_vars

\* every pending remote call eventually returns or throws
Returns(r) ==
  CreateReturn(r) \/ MkdirReturn(r, BOOLEAN) \/ WriteReturn(r)
    \/ RunReturn(r, Execution) \/ RunThrow(r) \/ KillReturn(r, BOOLEAN)

FairSpec == Spec /\ WF_vars(Returns(1))

\* ------------------------------------- concurrent requests, fewer inputs
ConcRequests ==
  { q \in ExecuteRequest :
      /\ q.auth /\ q.apiKey /\ q.body = "artifact"
      /\ q.artifact.artifact_type = "backend"
      /\ q.artifact.language = "python"
      /\ q.artifact.files = << [path |-> <<"src", "util.py">>, content |-> "x = 2"] >> }

ConcExecutions ==
  { e \in Execution : e.text = "" /\ e.stdout = <<>> /\ e.stderr = <<>>
                      /\ e.error = "none" }

ConcNext ==
  \E r \in Req :
    \/ Receive(r, ConcRequests)
    \/ CreateReturn(r)
    \/ MkdirReturn(r, {TRUE})
    \/ WriteReturn(r)
    \/ RunReturn(r, ConcExecutions)
    \/ RunThrow(r)
    \/ KillReturn(r, {TRUE})
    \/ Cancel(r)

ConcSpec == Init /\ [][ConcNext]_vars

\* ================================================= Part 2: parseArtifact
\* A text is a sequence of symbols.  A symbol is one character, except that
\* a run of letters or digits that the parser never splits is one symbol
\* ("artifact_type", "json", "null", "main.py") and so is a markdown fence
\* (three backquotes).  A JSON value is a tagged record; an object keeps its members in
\* insertion order, as JavaScript does.
\* the double-quote character is written ' in this model
Quote == "'"
\* the markdown fence (three backquotes) is written ~~~ in this model
Fence == "~~~"
Whitespace == {" ", "\n"}

Str(s) == [t |-> "string", v |-> s]
Num(d) == [t |-> "number", v |-> d]
Null == [t |-> "null", v |-> <<>>]
Undefined == [t |-> "undefined", v |-> <<>>]
Arr(elems) == [t |-> "array", v |-> elems]
Obj(members) == [t |-> "object", v |-> members]
Member(k, x) == [k |-> k, x |-> x]

RECURSIVE Join(_, _)
Join(parts, sep) ==
  IF Len(parts) = 0 THEN <<>>
  ELSE IF Len(parts) = 1 THEN parts[1]
  ELSE parts[1] \o sep \o Join(Tail(parts), sep)

\* JSON.stringify of a string: quotes, backslashes and newlines are escaped
RECURSIVE Escape(_)
Escape(s) ==
  IF s = <<>> THEN <<>>
  ELSE (CASE Head(s) = "\n" -> << "\\", "n" >>
          [] Head(s) \in { Quote, "\\" } -> << "\\", Head(s) >>
          [] OTHER -> << Head(s) >>) \o Escape(Tail(s))

\* JSON.stringify
RECURSIVE Stringify(_)
Stringify(x) ==
  CASE x.t = "string" -> << Quote >> \o Escape(x.v) \o << Quote >>
    [] x.t = "number" -> << x.v >>
    [] x.t = "null" -> << "null" >>
    [] x.t = "array" ->
         << "[" >> \o Join([i \in DOMAIN x.v |-> Stringify(x.v[i])], << "," >>)
                   \o << "]" >>
    [] x.t = "object" ->
         << "{" >>
           \o Join([i \in DOMAIN x.v |->
                      << Quote >> \o x.v[i].k \o << Quote, ":" >> \o Stringify(x.v[i].x)],
                   << "," >>)
           \o << "}" >>

\* ---- JSON.parse: recursive descent, result [ok, val, pos]
Fail == [ok |-> FALSE, val |-> Null, pos |-> 0]
Ok(val, pos) == [ok |-> TRUE, val |-> val, pos |-> pos]
Digits == {"0", "1"}

RECURSIVE SkipWs(_, _)
SkipWs(s, i) ==
  IF i <= Len(s) /\ s[i] \in Whitespace THEN SkipWs(s, i + 1) ELSE i

IndexFrom(s, c, i) ==
  LET hits == { j \in i..Len(s) : s[j] = c }
  IN  IF hits = {} THEN 0 ELSE CHOOSE j \in hits : \A h \in hits : j <= h

\* s[i - 1] is the opening quote or the string read so far is acc; a raw
\* newline or an unknown escape inside a string is a syntax error
RECURSIVE ScanString(_, _, _)
ScanString(s, i, acc) ==
  IF i > Len(s) \/ s[i] = "\n" THEN Fail
  ELSE IF s[i] = Quote THEN Ok(Str(acc), i + 1)
  ELSE IF s[i] # "\\" THEN ScanString(s, i + 1, Append(acc, s[i]))
  ELSE IF i + 1 > Len(s) THEN Fail
  ELSE IF s[i + 1] = "n" THEN ScanString(s, i + 2, Append(acc, "\n"))
  ELSE IF s[i + 1] \in { Quote, "\\" } THEN ScanString(s, i + 2, Append(acc, s[i + 1]))
  ELSE Fail

\* s[i] is the opening quote
ParseString(s, i) == ScanString(s, i + 1, <<>>)

\* obj[k] = x : replaces the value of an existing key, else appends
SetMember(members, k, x) ==
  IF \E i \in DOMAIN members : members[i].k = k
    THEN [i \in DOMAIN members |->
            IF members[i].k = k THEN Member(k, x) ELSE members[i]]
    ELSE Append(members, Member(k, x))

RECURSIVE ParseValue(_, _), ParseMembers(_, _, _), ParseElements(_, _, _)

\* i is just after "{" or ","; acc holds the members read so far
ParseMembers(s, i0, acc) ==
  LET i == SkipWs(s, i0)
  IN  IF i > Len(s) \/ s[i] # Quote THEN Fail
      ELSE LET key == ParseString(s, i)
           IN  IF ~key.ok THEN Fail
               ELSE LET c == SkipWs(s, key.pos)
                    IN  IF c > Len(s) \/ s[c] # ":" THEN Fail
                        ELSE LET val == ParseValue(s, c + 1)
                             IN  IF ~val.ok THEN Fail
                                 ELSE LET n == SkipWs(s, val.pos)
                                          acc2 == SetMember(acc, key.val.v, val.val)
                                      IN  IF n > Len(s) THEN Fail
                                          ELSE IF s[n] = "," THEN ParseMembers(s, n + 1, acc2)
                                          ELSE IF s[n] = "}" THEN Ok(Obj(acc2), n + 1)
                                          ELSE Fail

\* i is just after "[" or ","; acc holds the elements read so far
ParseElements(s, i0, acc) ==
  LET val == ParseValue(s, i0)
  IN  IF ~val.ok THEN Fail
      ELSE LET n == SkipWs(s, val.pos)
               acc2 == Append(acc, val.val)
           IN  IF n > Len(s) THEN Fail
               ELSE IF s[n] = "," THEN ParseElements(s, n + 1, acc2)
               ELSE IF s[n] = "]" THEN Ok(Arr(acc2), n + 1)
               ELSE Fail

ParseValue(s, i0) ==
  LET i == SkipWs(s, i0)
  IN  IF i > Len(s) THEN Fail
      ELSE IF s[i] = "{"
        THEN LET n == SkipWs(s, i + 1)
             IN  IF n <= Len(s) /\ s[n] = "}" THEN Ok(Obj(<<>>), n + 1)
                 ELSE ParseMembers(s, i + 1, <<>>)
      ELSE IF s[i] = "["
        THEN LET n == SkipWs(s, i + 1)
             IN  IF n <= Len(s) /\ s[n] = "]" THEN Ok(Arr(<<>>), n + 1)
                 ELSE ParseElements(s, i + 1, <<>>)
      ELSE IF s[i] = Quote THEN ParseString(s, i)
      ELSE IF s[i] = "null" THEN Ok(Null, i + 1)
      ELSE IF s[i] \in Digits THEN Ok(Num(s[i]), i + 1)
      ELSE Fail

\* JSON.parse(text): [threw, val]
JSONparse(s) ==
  LET r == ParseValue(s, 1)
  IN  IF r.ok /\ SkipWs(s, r.pos) = Len(s) + 1
        THEN [threw |-> FALSE, val |-> r.val]
        ELSE [threw |-> TRUE, val |-> Null]

\* ---- string helpers of parseArtifact
RECURSIVE TrimEnd(_)
TrimEnd(s) ==
  IF Len(s) > 0 /\ s[Len(s)] \in Whitespace THEN TrimEnd(SubSeq(s, 1, Len(s) - 1)) ELSE s

\* String.prototype.trim
trim(s) == LET i == SkipWs(s, 1) IN TrimEnd(SubSeq(s, i, Len(s)))

\* jsonStr.match(/```(?:json)?\s*([\s\S]*?)```/): the capture group, or no
\* match.  The leftmost match opens at the first fence; the lazy group ends
\* at the next fence.
MatchFence(s) ==
  LET open == IndexFrom(s, Fence, 1)
      afterTag == IF open < Len(s) /\ s[open + 1] = "json" THEN open + 2 ELSE open + 1
      start == SkipWs(s, afterTag)
      close == IndexFrom(s, Fence, start)
  IN  IF open = 0 \/ close = 0
        THEN [matched |-> FALSE, group |-> <<>>]
        ELSE [matched |-> TRUE, group |-> SubSeq(s, start, close - 1)]

\* indexOf / lastIndexOf, 1-based, 0 for "not found"
indexOf(s, c) == IndexFrom(s, c, 1)
lastIndexOf(s, c) ==
  LET hits == { j \in DOMAIN s : s[j] = c }
  IN  IF hits = {} THEN 0 ELSE CHOOSE j \in hits : \A h \in hits : j >= h

\* ---- JavaScript property access and truthiness on parsed values
HasKey(x, k) == x.t = "object" /\ \E i \in DOMAIN x.v : x.v[i].k = k
Get(x, k) ==
  IF HasKey(x, k)
    THEN x.v[CHOOSE i \in DOMAIN x.v : x.v[i].k = k].x
    ELSE Undefined

Truthy(x) ==
  CASE x.t \in {"undefined", "null"} -> FALSE
    [] x.t = "string" -> x.v # <<>>
    [] x.t = "number" -> x.v # "0"
    [] OTHER -> TRUE

\* the validation of one element of artifact.files:
\* "throw" (property read on null), "invalid" or "ok"
CheckFile(file) ==
  IF file.t = "null" THEN "throw"
  ELSE IF ~Truthy(Get(file, << "path" >>)) \/ Get(file, << "content" >>).t # "string"
    THEN "invalid"
  ELSE "ok"

\* the validation of the parsed value: [threw, val], val = Null for
\* "return null"
validateArtifact(artifact) ==
  LET files == Get(artifact, << "files" >>)
  IN  IF artifact.t = "null"
        THEN [threw |-> TRUE, val |-> Null]
      ELSE IF \/ ~Truthy(Get(artifact, << "artifact_type" >>))
              \/ ~Truthy(Get(artifact, << "language" >>))
              \/ ~Truthy(files)
        THEN [threw |-> FALSE, val |-> Null]
      ELSE IF files.t # "array" \/ Len(files.v) = 0
        THEN [threw |-> FALSE, val |-> Null]
      ELSE IF \E i \in DOMAIN files.v :
                /\ CheckFile(files.v[i]) # "ok"
                /\ \A j \in 1..(i - 1) : CheckFile(files.v[j]) = "ok"
        THEN LET i == CHOOSE i \in DOMAIN files.v :
                        /\ CheckFile(files.v[i]) # "ok"
                        /\ \A j \in 1..(i - 1) : CheckFile(files.v[j]) = "ok"
             IN  [threw |-> CheckFile(files.v[i]) = "throw", val |-> Null]
      ELSE [threw |-> FALSE, val |-> artifact]

\* the body of the try block: [threw, val], val = Null for "return null"
parseArtifactTry(output) ==
  LET trimmed == trim(output)
      jsonMatch == MatchFence(trimmed)
      inFence == IF jsonMatch.matched THEN trim(jsonMatch.group) ELSE trimmed
      startIdx == indexOf(inFence, "{")
      endIdx == lastIndexOf(inFence, "}")
      jsonStr == IF startIdx # 0 /\ endIdx # 0
                   THEN SubSeq(inFence, startIdx, endIdx) ELSE inFence
      json == JSONparse(jsonStr)
  IN  IF json.threw THEN [threw |-> TRUE, val |-> Null]
      ELSE validateArtifact(json.val)

\* parseArtifact: try { ... } catch { return null }
parseArtifact(output) == parseArtifactTry(output).val

\* ===================================================== properties
Finished(r) == task[r].pc = "done"
Streaming(r) == task[r].route = "stream" /\ task[r].response.status = 200
OfType(r, t) == { i \in DOMAIN task[r].chunks : task[r].chunks[i].type = t }
CallsOf(r, op) == { i \in DOMAIN task[r].calls : task[r].calls[i].op = op }
Live(e) == \A r \in Req : \A i \in CallsOf(r, "kill") : task[r].calls[i].env # e

DoneIsLast(r) ==
  \A i \in OfType(r, "done") : i = Len(task[r].chunks)

\* C1 as stated: every stream that has ended carries exactly one done
\* chunk, and it is the last chunk.
C1_Original ==
  \A r \in Req : Streaming(r) =>
    /\ DoneIsLast(r)
    /\ Finished(r) => Cardinality(OfType(r, "done")) = 1

\* C1 (amended): in every stream no chunk follows a done chunk, so there is
\* at most one; a stream that has ended and whose consumer did not cancel
\* carries exactly one done chunk, for every outcome of create, the file
\* writes and runCode.
C1_OneDoneUnlessCancelled ==
  \A r \in Req : Streaming(r) =>
    /\ DoneIsLast(r)
    /\ (Finished(r) /\ ~task[r].cancelled) => Cardinality(OfType(r, "done")) = 1

C1_Witness ==
  \E r \in Req :
    /\ Streaming(r) /\ Finished(r) /\ ~task[r].cancelled
    /\ OfType(r, "error") # {}
    /\ task[r].chunks[Len(task[r].chunks)].type = "done"

IsFrontendRequest(r) ==
  /\ task[r].route # "none"
  /\ task[r].request.body = "artifact"
  /\ \/ task[r].artifact.artifact_type = "frontend"
     \/ isFrontendLanguage(task[r].artifact.language)

C3_KillExactlyOnce ==
  \A r \in Req :
    /\ \A i \in CallsOf(r, "kill") :
         /\ i = Len(task[r].calls)
         /\ task[r].sandbox # 0
         /\ task[r].calls[i].env = task[r].sandbox
    /\ (Finished(r) /\ task[r].sandbox # 0) => Cardinality(CallsOf(r, "kill")) = 1
    /\ task[r].sandbox = 0 => CallsOf(r, "kill") = {}

C3_Witness ==
  \E r \in Req :
    /\ task[r].route = "buffered" /\ Finished(r)
    /\ Cardinality(CallsOf(r, "kill")) = 1
    /\ \E i \in CallsOf(r, "runCode") : task[r].calls[i].res = "throw"

NoLiveEnvOf(r) == \A e \in DOMAIN envs : envs[e] = r => ~Live(e)

\* C4: once the consumer has cancelled a stream, the handler eventually ends
\* and kill has then been called on every environment the request created.
C4_CancelledStreamIsTornDown ==
  \A r \in Req : task[r].cancelled ~> (Finished(r) /\ NoLiveEnvOf(r))

C4_Witness ==
  \E r \in Req :
    /\ task[r].cancelled /\ Finished(r)
    /\ \E e \in DOMAIN envs : envs[e] = r /\ ~Live(e)
    /\ CallsOf(r, "runCode") = {}

Rank(type) ==
  CASE type = "status" -> 0
    [] type \in {"stdout", "stderr"} -> 1
    [] type = "error" -> 2
    [] type = "done" -> 3

DoneContentTellsSuccess(r) ==
  \A i \in OfType(r, "done") :
    task[r].chunks[i].content = "Execution complete" <=> OfType(r, "error") = {}

\* C5 as stated: status chunks, then stdout/stderr chunks, then at most one
\* error chunk, then done; nothing but done follows an error chunk.
C5_Original ==
  \A r \in Req : Streaming(r) =>
    LET ch == task[r].chunks
    IN  /\ \A i, j \in DOMAIN ch : i < j => Rank(ch[i].type) <= Rank(ch[j].type)
        /\ Cardinality(OfType(r, "error")) <= 1
        /\ DoneContentTellsSuccess(r)

\* C5 (amended): status chunks, then stdout/stderr chunks, then at most one
\* error chunk, then at most one stderr chunk (the traceback of that error),
\* then done.  No status chunk follows a stdout/stderr chunk, no stdout chunk
\* follows an error chunk, and done says "Execution complete" iff there is
\* no error chunk.
C5_OrderWithTraceback ==
  \A r \in Req : Streaming(r) =>
    LET ch == task[r].chunks
        afterError(i) == \E e \in OfType(r, "error") : e < i
    IN  /\ \A i, j \in DOMAIN ch :
             (i < j /\ ~afterError(j)) => Rank(ch[i].type) <= Rank(ch[j].type)
        /\ \A j \in DOMAIN ch : afterError(j) =>
             \/ ch[j].type = "done"
             \/ ch[j].type = "stderr" /\ ch[j - 1].type = "error"
        /\ Cardinality(OfType(r, "error")) <= 1
        /\ DoneContentTellsSuccess(r)

C5_Witness ==
  \E r \in Req :
    LET ch == task[r].chunks
    IN  /\ Streaming(r) /\ Finished(r) /\ Len(ch) >= 5
        /\ ch[Len(ch)].type = "done"
        /\ ch[Len(ch) - 1].type = "stderr"
        /\ ch[Len(ch) - 2].type = "error"
        /\ ch[Len(ch) - 3].type \in {"stdout", "stderr"}

WritesOf(r) ==
  LET c == task[r].calls
      F[i \in 0..Len(c)] ==
        IF i = 0 THEN <<>>
        ELSE IF c[i].op = "write" THEN Append(F[i - 1], c[i]) ELSE F[i - 1]
  IN  F[Len(c)]

FailureOutcome(r) ==
  IF task[r].route = "stream"
    THEN \A i \in OfType(r, "done") : task[r].chunks[i].content = "Execution failed"
    ELSE ~task[r].response.success

\* C6: in both routes the remote calls of a request are create, then for
\* each file in declared order its write (preceded by makeDir of its
\* directory iff the path is nested), then runCode; runCode is called only
\* after the write of every file has returned normally; after a failed
\* create or a failed write there is no later makeDir, write or runCode call,
\* and the request's outcome is a failure.
C6_CallOrder ==
  \A r \in Req :
    LET c == task[r].calls
        files == task[r].artifact.files
        w == WritesOf(r)
    IN  /\ \A i \in DOMAIN c : (c[i].op = "create") <=> (i = 1)
        /\ Len(c) > 1 => c[1].res = "ok"
        /\ Len(w) <= Len(files)
        /\ \A k \in DOMAIN w :
             w[k].arg.path = files[k].path /\ w[k].arg.content = files[k].content
        /\ \A i \in CallsOf(r, "write") :
             IF dirPath(c[i].arg.path) # <<>>
               THEN c[i - 1].op = "makeDir" /\ c[i - 1].arg.path = dirPath(c[i].arg.path)
               ELSE c[i - 1].op # "makeDir"
        /\ \A i \in CallsOf(r, "makeDir") :
             c[i].res # "pending" => (Len(c) > i /\ c[i + 1].op = "write")
        /\ \A i \in CallsOf(r, "runCode") :
             /\ Len(w) = Len(files)
             /\ \A j \in CallsOf(r, "write") : j < i /\ c[j].res = "ok"
        /\ \A i \in DOMAIN c :
             (c[i].op \in {"create", "write"} /\ c[i].res = "throw") =>
               /\ \A j \in DOMAIN c : j > i => c[j].op = "kill"
               /\ FailureOutcome(r)
               /\ Finished(r) \/ task[r].pc = "kill"

C6_Witness ==
  \E r \in Req :
    LET c == task[r].calls
    IN  /\ Finished(r) /\ Len(task[r].artifact.files) = 2
        /\ \E i \in CallsOf(r, "write") :
             i > 2 /\ c[i].res = "throw" /\ c[i - 1].op = "makeDir"

\* C7: with requests of both routes running concurrently, every accepted
\* request calls create exactly once, every makeDir, write, runCode and kill
\* call of a request is on the environment that this request created, and a
\* request makes no call after its kill.
C7_EnvironmentPerRequest ==
  \A r \in Req :
    LET c == task[r].calls
    IN  /\ (task[r].route # "none" /\ Precheck(task[r].route, task[r].request).status = 0)
             => Cardinality(CallsOf(r, "create")) = 1
        /\ \A i \in DOMAIN c :
             c[i].op # "create" =>
               /\ c[i].env \in DOMAIN envs
               /\ envs[c[i].env] = r
               /\ c[1].env = c[i].env
        /\ \A i \in CallsOf(r, "kill") : i = Len(c)

C7_Witness ==
  \E r1, r2 \in Req :
    /\ r1 # r2
    /\ task[r1].route = "buffered" /\ task[r2].route = "stream"
    /\ task[r1].pc = "write" /\ task[r2].pc = "run"
    /\ task[r1].sandbox # 0 /\ task[r2].sandbox # 0

RunReturnedNoError(r) ==
  \E i \in CallsOf(r, "runCode") :
    task[r].calls[i].res = "ok" /\ task[r].execution.error = "none"

CodeFailed(r) ==
  \/ \E i \in CallsOf(r, "write") \cup CallsOf(r, "runCode") :
       task[r].calls[i].res = "throw"
  \/ \E i \in CallsOf(r, "runCode") :
       task[r].calls[i].res = "ok" /\ task[r].execution.error # "none"

\* C8: in the buffered route, once create has succeeded the response is a
\* 200 carrying a result object: result.success holds iff runCode returned
\* without an error, exitCode = 0 iff result.success, and when a write or
\* runCode threw or runCode returned an error, success = false and
\* exitCode = 1.
C8_FailureIsData ==
  \A r \in Req :
    (task[r].route = "buffered" /\ task[r].sandbox # 0
       /\ task[r].pc \in {"kill", "done"}) =>
      LET resp == task[r].response
      IN  /\ resp.status = 200 /\ resp.hasResult
          /\ resp.success = resp.result.success
          /\ resp.result.success <=> RunReturnedNoError(r)
          /\ resp.result.exitCode = 0 <=> resp.result.success
          /\ CodeFailed(r) => (~resp.result.success /\ resp.result.exitCode = 1)

C8_Witness ==
  \E r \in Req :
    /\ task[r].route = "buffered" /\ Finished(r)
    /\ \E i \in CallsOf(r, "write") : task[r].calls[i].res = "throw"
    /\ task[r].response.hasResult /\ task[r].response.result.exitCode = 1

\* ------------------------------------------------ parseArtifact inputs
ParsePaths == { << "main.py" >>, << "src", "/", "util.py" >> }
ParseContents ==
  { <<>>, << "x" >>, << "{", "x", "}" >>, << Fence, "x", Fence >>,
    << "}", Fence, "{" >> }

File(path, content) ==
  Obj(<< Member(<< "path" >>, path), Member(<< "content" >>, content) >>)

ValidFile == { File(Str(p), Str(c)) : p \in ParsePaths, c \in ParseContents }

ArtifactValue(type, language, files, run) ==
  Obj(<< Member(<< "artifact_type" >>, type), Member(<< "language" >>, language),
         Member(<< "files" >>, files), Member(<< "run" >>, run) >>)

RunCommand == Str(<< "python", " ", "main.py" >>)

\* the artifacts that satisfy the data model
ValidArtifact ==
  { ArtifactValue(Str(<< k[1] >>), Str(<< k[2] >>), Arr(fs), k[3]) :
      k \in { << "frontend", "html", Null >>, << "backend", "python", Null >>,
              << "backend", "python", RunCommand >> },
      fs \in SeqUpTo(ValidFile, MaxParseFiles) \ { <<>> } }

GoodFile == File(Str(<< "main.py" >>), Str(<< "x" >>))

\* file elements that break the schema
DefectFile ==
  { Obj(<< Member(<< "content" >>, Str(<< "x" >>)) >>),
    File(Str(<<>>), Str(<< "x" >>)),
    File(Null, Str(<< "x" >>)),
    File(Num("1"), Str(<< "x" >>)),
    File(Arr(<<>>), Str(<< "x" >>)),
    Obj(<< Member(<< "path" >>, Str(<< "main.py" >>)) >>),
    File(Str(<< "main.py" >>), Num("1")),
    File(Str(<< "main.py" >>), Null),
    Null,
    Num("1") }

Backend == Str(<< "backend" >>)
Python == Str(<< "python" >>)

\* JSON values that break the schema
DefectValue ==
       { ArtifactValue(Backend, Python, Arr(<< f >>), Null) : f \in DefectFile }
  \cup { ArtifactValue(Backend, Python, Arr(<< GoodFile, f >>), Null) : f \in DefectFile }
  \cup { ArtifactValue(Backend, Python, Arr(<<>>), Null),
         ArtifactValue(Backend, Python, Str(<< "x" >>), Null),
         ArtifactValue(Backend, Python, Null, Null),
         ArtifactValue(Str(<<>>), Python, Arr(<< GoodFile >>), Null),
         Obj(<< Member(<< "language" >>, Python),
                Member(<< "files" >>, Arr(<< GoodFile >>)) >>),
         Obj(<< Member(<< "artifact_type" >>, Backend),
                Member(<< "files" >>, Arr(<< GoodFile >>)) >>),
         Obj(<< Member(<< "artifact_type" >>, Backend),
                Member(<< "language" >>, Python) >>),
         Obj(<<>>), Arr(<<>>), Null, Num("1"), Str(<< "x" >>) }

\* artifacts whose fields are each well-formed but contradict one another:
\* a frontend artifact with a run command, a frontend language under
\* artifact_type backend, a backend language under artifact_type frontend
InconsistentArtifact ==
  { ArtifactValue(Str(<< k[1] >>), Str(<< k[2] >>), Arr(<< GoodFile >>), k[3]) :
      k \in { << "frontend", "html", RunCommand >>, << "backend", "html", Null >>,
              << "backend", "react", Null >>, << "frontend", "python", Null >>,
              << "frontend", "node", RunCommand >> } }

\* how the model's answer wraps the JSON
GoodWraps == { "bare", "fence", "fence json", "prose", "prose with braces" }
Wraps == GoodWraps \cup { "truncated" }

Wrap(json, wrap) ==
  CASE wrap = "bare" -> json
    [] wrap = "fence" -> << Fence, "\n" >> \o json \o << "\n", Fence >>
    [] wrap = "fence json" -> << Fence, "json", "\n" >> \o json \o << "\n", Fence, "\n" >>
    [] wrap = "prose" ->
         << "Here", " ", "it", " ", "is", ":", "\n" >> \o json \o << "\n", "Enjoy", "!" >>
    [] wrap = "prose with braces" ->
         << "Edit", " ", "{", "x", "}", ":", "\n" >> \o json
    [] wrap = "truncated" -> SubSeq(json, 1, Len(json) - 1)

Origins ==
       { [value |-> a, wrap |-> w, valid |-> w \in GoodWraps] :
           a \in ValidArtifact, w \in Wraps }
  \cup { [value |-> a, wrap |-> w, valid |-> FALSE] :
           a \in DefectValue \cup InconsistentArtifact, w \in Wraps }

ParseInit ==
  /\ task = [r \in Req |-> IdleTask]
  /\ envs = <<>>
  /\ origin \in Origins
  /\ text = Wrap(Stringify(origin.value), origin.wrap)
  /\ parsed = NotRun
  /\ shown = NotRun
  /\ preview = NoPreview
  /\ frame = NoFrame
  /\ wc = NoContainer
  /\ live = IdleRun
  /\ wcPreview = NoPanel
  /\ reply = NoReply
  /\ client = NoClient

Parse ==
  /\ parsed.t = "not run"
  /\ parsed' = parseArtifact(text)
  /\ UNCHANGED <<execVars, origin, text, previewVars, wcVars, uiVars>>

ParseNext == Parse

ParseSpec == ParseInit /\ [][ParseNext]_vars

HasString(x, k) == HasKey(x, k) /\ Get(x, k).t = "string"

\* the schema of a returned artifact, as C9 states it
WellFormed(a) ==
  /\ a.t = "object"
  /\ HasKey(a, << "artifact_type" >>) /\ HasKey(a, << "language" >>)
  /\ HasKey(a, << "files" >>)
  /\ Get(a, << "files" >>).t = "array"
  /\ Len(Get(a, << "files" >>).v) > 0
  /\ \A i \in DOMAIN Get(a, << "files" >>).v :
       LET f == Get(a, << "files" >>).v[i]
       IN  HasString(f, << "path" >>) /\ HasString(f, << "content" >>)

\* the structural violations C9 lists: a missing artifact_type, language or
\* files key, an empty files array, a file without path, a file whose
\* content is not a string
ListedViolation(a) ==
  /\ a.t = "object"
  /\ \/ ~HasKey(a, << "artifact_type" >>) \/ ~HasKey(a, << "language" >>)
     \/ ~HasKey(a, << "files" >>)
     \/ /\ Get(a, << "files" >>).t = "array"
        /\ \/ Len(Get(a, << "files" >>).v) = 0
           \/ \E i \in DOMAIN Get(a, << "files" >>).v :
                LET f == Get(a, << "files" >>).v[i]
                IN  f.t = "object" /\ (~HasKey(f, << "path" >>)
                                          \/ ~HasString(f, << "content" >>))

\* C9: parseArtifact returns null or an artifact that has artifact_type,
\* language and a non-empty files array whose elements all have a string
\* path and a string content; it returns null for each listed violation.
C9_NullOrWellFormed ==
  parsed.t # "not run" =>
    /\ parsed.t = "null" \/ WellFormed(parsed)
    /\ (origin.wrap \in GoodWraps /\ ListedViolation(origin.value)) => parsed.t = "null"

\* C10: for a valid artifact A, parseArtifact of JSON.stringify(A), bare, in
\* one markdown fence, or between prose, returns a value equal to A.
C10_RoundTrip ==
  (parsed.t # "not run" /\ origin.valid) =>
     (parsed.t = "object" /\ parsed = origin.value)

\* the language and artifact_type of a parsed artifact, as plain strings
LanguageOf(a) == Get(a, << "language" >>).v[1]
TypeOf(a) == Get(a, << "artifact_type" >>).v[1]

\* a returned artifact whose type and language are strings of the enums
Classified(a) ==
  /\ a.t = "object"
  /\ HasString(a, << "artifact_type" >>) /\ HasString(a, << "language" >>)
  /\ Len(Get(a, << "artifact_type" >>).v) = 1 /\ TypeOf(a) \in ArtifactType
  /\ Len(Get(a, << "language" >>).v) = 1 /\ LanguageOf(a) \in ArtifactLanguage

\* C11: every artifact parseArtifact returns has a null run when its
\* artifact_type is frontend, and its language is frontend-classified
\* exactly when its artifact_type is frontend.
C11_DataModelInvariants ==
  Classified(parsed) =>
    /\ TypeOf(parsed) = "frontend" => ~Truthy(Get(parsed, << "run" >>))
    /\ isFrontendLanguage(LanguageOf(parsed)) <=> TypeOf(parsed) = "frontend"

\* C12: for the language of every artifact a handler has received, over
\* the whole language enum, exactly one of isFrontendLanguage and
\* isBackendLanguage is true.
C12_ExactlyOneClassifier ==
  \A r \in Req :
    (task[r].pc # "idle" /\ task[r].request.body = "artifact") =>
      LET lang == task[r].artifact.language
      IN  /\ lang \in ArtifactLanguage
          /\ isFrontendLanguage(lang) # isBackendLanguage(lang)

\* a handler has received an artifact of the last language of the enum
C12_Witness ==
  \E r \in Req :
    /\ task[r].pc # "idle" /\ task[r].request.body = "artifact"
    /\ task[r].artifact.language = "bash"
    /\ isBackendLanguage("bash") /\ ~isFrontendLanguage("bash")

\* ==================================================== Part 3: the preview
\* Source code and HTML are texts of symbols, as in Part 2.  A regular
\* expression is a sequence of alternatives in priority order; an
\* alternative is a sequence of items; an item is a class of symbols with a
\* quantifier.  Matching is JavaScript's backtracking: Ends lists the
\* positions after every way to match, most preferred first.
In(S) == [neg |-> FALSE, set |-> S]
NotIn(S) == [neg |-> TRUE, set |-> S]

One(class) == << [a |-> class, q |-> "one"] >>
Opt(class) == << [a |-> class, q |-> "opt"] >>
Star(class) == << [a |-> class, q |-> "star"] >>
Plus(class) == One(class) \o Star(class)
Lit(c) == One(In({c}))

\* the quantifier "lazy" is *? and "eol" is $ under the m flag
RECURSIVE Ends(_, _, _, _)
Ends(re, k, s, i) ==
  IF k > Len(re) THEN << i >>
  ELSE LET item == re[k]
           ok == i <= Len(s) /\ ((s[i] \in item.a.set) # item.a.neg)
       IN  CASE item.q = "one" -> IF ok THEN Ends(re, k + 1, s, i + 1) ELSE <<>>
             [] item.q = "opt" ->
                  (IF ok THEN Ends(re, k + 1, s, i + 1) ELSE <<>>) \o Ends(re, k + 1, s, i)
             [] item.q = "star" ->
                  (IF ok THEN Ends(re, k, s, i + 1) ELSE <<>>) \o Ends(re, k + 1, s, i)
             [] item.q = "lazy" ->
                  Ends(re, k + 1, s, i) \o (IF ok THEN Ends(re, k, s, i + 1) ELSE <<>>)
             [] item.q = "eol" ->
                  IF i > Len(s) \/ s[i] = "\n" THEN Ends(re, k + 1, s, i) ELSE <<>>

EndsOf(pattern, s, i) ==
  Join([a \in DOMAIN pattern |-> Ends(pattern[a], 1, s, i)], <<>>)

\* RegExp.prototype.exec from lastIndex: the leftmost match [from, to), or
\* from = 0 when there is none
RegExpExec(pattern, s, lastIndex) ==
  LET hits == { i \in lastIndex..Len(s) : EndsOf(pattern, s, i) # <<>> }
  IN  IF hits = {} THEN [from |-> 0, to |-> 0]
      ELSE LET i == CHOOSE i \in hits : \A h \in hits : i <= h
           IN  [from |-> i, to |-> Head(EndsOf(pattern, s, i))]

RegExpTest(pattern, s) == RegExpExec(pattern, s, 1).from # 0

\* ---- symbol classes.  A symbol that is a run of word characters is a
\* word; NonWord lists the symbols of the model that are not.
ScopeWords == { "@org" }
NonWord ==
  { " ", "\n", "{", "}", ",", "*", ";", "(", ")", "<", ">", "=", "=>", ".", "/",
    Quote, "framer-motion", "react-dom", "App.css" } \cup ScopeWords
WordChar == NotIn(NonWord)
Space == In(Whitespace)
QuoteChar == In({ Quote })
NotQuote == NotIn({ Quote })
NotBrace == NotIn({ "}" })

\* the tail  \s*from\s*['"]react['"]
FromReact ==
  Star(Space) \o Lit("from") \o Star(Space) \o One(QuoteChar) \o Lit("react")
    \o One(QuoteChar)

reactHooks ==
  << "useState", "useEffect", "useCallback", "useMemo", "useRef", "useContext",
     "useReducer", "useLayoutEffect", "useImperativeHandle", "useDebugValue",
     "useDeferredValue", "useTransition", "useId", "useSyncExternalStore",
     "useInsertionEffect" >>

\* new RegExp(`\\b${hook}\\s*[(<]`)
hookCallRegex(hook) == << Lit(hook) \o Star(Space) \o One(In({ "(", "<" })) >>

\* reactHooks.filter(hook => new RegExp(...).test(jsxCode))
usedHooks(jsxCode) ==
  LET F[i \in 0..Len(reactHooks)] ==
        IF i = 0 THEN <<>>
        ELSE IF RegExpTest(hookCallRegex(reactHooks[i]), jsxCode)
          THEN Append(F[i - 1], reactHooks[i]) ELSE F[i - 1]
  IN  F[Len(reactHooks)]

\* /const\s*\{[^}]*\}\s*=\s*React/
constFromReactRegex ==
  << Lit("const") \o Star(Space) \o Lit("{") \o Star(NotBrace) \o Lit("}")
       \o Star(Space) \o Lit("=") \o Star(Space) \o Lit("React") >>
\* the three expressions of hasHooksImport: the one above,
\* /import\s*\{[^}]*\}\s*from\s*['"]react['"]/ and
\* /import\s+React\s*,\s*\{[^}]*\}\s*from\s*['"]react['"]/
hooksImportRegex ==
  constFromReactRegex
    \o << Lit("import") \o Star(Space) \o Lit("{") \o Star(NotBrace) \o Lit("}")
            \o FromReact,
          Lit("import") \o Plus(Space) \o Lit("React") \o Star(Space) \o Lit(",")
            \o Star(Space) \o Lit("{") \o Star(NotBrace) \o Lit("}") \o FromReact >>

hasHooksImport(jsxCode) == RegExpTest(hooksImportRegex, jsxCode)

\* /import\s+(?:[\w\s{},*]+\s+from\s+)?['"]([^'"./@][^'"]*)['"];?/g
externalImportRegex ==
  LET specifier ==
        One(QuoteChar) \o One(NotIn({ Quote, ".", "/" } \cup ScopeWords))
          \o Star(NotQuote) \o One(QuoteChar) \o Opt(In({ ";" }))
      clause ==
        Plus(NotIn(NonWord \ { " ", "\n", "{", "}", ",", "*" })) \o Plus(Space)
          \o Lit("from") \o Plus(Space)
  IN  << Lit("import") \o Plus(Space) \o clause \o specifier,
         Lit("import") \o Plus(Space) \o specifier >>

\* pkg.split("/").slice(0, n).join("/")
FirstSegments(pkg, n) ==
  LET slashes == { i \in DOMAIN pkg : pkg[i] = "/" }
  IN  IF Cardinality(slashes) < n THEN pkg
      ELSE SubSeq(pkg, 1, (CHOOSE i \in slashes :
                             Cardinality({ j \in slashes : j <= i }) = n) - 1)

\* match[1]: the text between the last two quotes of the match m
QuotedIn(s, m) ==
  LET close == CHOOSE j \in m.from..(m.to - 1) :
                 s[j] = Quote /\ \A h \in (j + 1)..(m.to - 1) : s[h] # Quote
      open == CHOOSE j \in m.from..(close - 1) :
                 s[j] = Quote /\ \A h \in (j + 1)..(close - 1) : s[h] # Quote
  IN  SubSeq(s, open + 1, close - 1)

basePkg(pkg) ==
  IF pkg[1] \in ScopeWords THEN FirstSegments(pkg, 2) ELSE FirstSegments(pkg, 1)

\* the while loop over externalImportRegex.exec, from lastIndex on
RECURSIVE externalPackages(_, _)
externalPackages(jsxCode, lastIndex) ==
  LET match == RegExpExec(externalImportRegex, jsxCode, lastIndex)
      base == basePkg(QuotedIn(jsxCode, match))
  IN  IF match.from = 0 THEN <<>>
      ELSE (IF base # << "react" >> /\ base # << "react-dom" >> THEN << base >>
            ELSE <<>>)
             \o externalPackages(jsxCode, match.to)

\* [...new Set(list)]
Unique(list) ==
  LET F[i \in 0..Len(list)] ==
        IF i = 0 THEN <<>>
        ELSE IF \E j \in 1..(i - 1) : list[j] = list[i]
          THEN F[i - 1] ELSE Append(F[i - 1], list[i])
  IN  F[Len(list)]

RECURSIVE SplitOn(_, _)
SplitOn(s, c) ==
  LET i == IndexFrom(s, c, 1)
  IN  IF i = 0 THEN << s >>
      ELSE << SubSeq(s, 1, i - 1) >> \o SplitOn(SubSeq(s, i + 1, Len(s)), c)

\* `const { ${hooks} } = React;`
Destructuring(hooks) ==
  << "const", " ", "{", " " >> \o hooks \o << " ", "}", " ", "=", " ", "React", ";" >>

\* the callback (_, imports) => destructuring of
\* imports.split(",").map(h => h.trim()).filter(Boolean).join(", "),
\* imports being the text between the braces of the match m
HooksCallback(s, m) ==
  LET open == IndexFrom(s, "{", m.from)
      parts == SplitOn(SubSeq(s, open + 1, IndexFrom(s, "}", open) - 1), ",")
      F[i \in 0..Len(parts)] ==
        IF i = 0 THEN <<>>
        ELSE IF trim(parts[i]) = <<>> THEN F[i - 1]
        ELSE Append(F[i - 1], trim(parts[i]))
  IN  Destructuring(Join(F[Len(parts)], << ",", " " >>))

\* s.replace(step.re, ...) for a g-flagged expression: the replacement is
\* the constant step.by or, when step.hooks is set, the callback
RECURSIVE ReplaceEach(_, _, _)
ReplaceEach(step, s, pos) ==
  LET m == RegExpExec(step.re, s, pos)
  IN  IF m.from = 0 THEN SubSeq(s, pos, Len(s))
      ELSE SubSeq(s, pos, m.from - 1)
             \o (IF step.hooks THEN HooksCallback(s, m) ELSE step.by)
             \o ReplaceEach(step, s, m.to)

\* s.replace(...).replace(...)...: the steps in order
RECURSIVE ReplaceChain(_, _)
ReplaceChain(steps, s) ==
  IF steps = <<>> THEN s
  ELSE ReplaceChain(Tail(steps), ReplaceEach(Head(steps), s, 1))

Semi == Opt(In({ ";" }))

\* the chain of replacements that makes the source a browser script
jsxReplacements ==
  LET exportDefault ==
        Lit("export") \o Plus(Space) \o Lit("default") \o Plus(Space)
  IN  << \* /import\s*\{([^}]+)\}\s*from\s*['"]react['"];?/g
         [ re |-> << Lit("import") \o Star(Space) \o Lit("{") \o Plus(NotBrace)
                       \o Lit("}") \o FromReact \o Semi >>,
           hooks |-> TRUE, by |-> <<>> ],
         \* /import\s+React\s*,\s*\{([^}]+)\}\s*from\s*['"]react['"];?/g
         [ re |-> << Lit("import") \o Plus(Space) \o Lit("React") \o Star(Space)
                       \o Lit(",") \o Star(Space) \o Lit("{") \o Plus(NotBrace)
                       \o Lit("}") \o FromReact \o Semi >>,
           hooks |-> TRUE, by |-> <<>> ],
         \* /import\s+.*?from\s*['"][^'"]+['"];?\n?/g
         [ re |-> << Lit("import") \o Plus(Space)
                       \o << [a |-> NotIn({ "\n" }), q |-> "lazy"] >>
                       \o Lit("from") \o Star(Space) \o One(QuoteChar)
                       \o Plus(NotQuote) \o One(QuoteChar) \o Semi
                       \o Opt(In({ "\n" })) >>,
           hooks |-> FALSE, by |-> <<>> ],
         \* /import\s+['"][^'"]+['"];?\n?/g
         [ re |-> << Lit("import") \o Plus(Space) \o One(QuoteChar) \o Plus(NotQuote)
                       \o One(QuoteChar) \o Semi \o Opt(In({ "\n" })) >>,
           hooks |-> FALSE, by |-> <<>> ],
         \* /export\s+default\s+function\s+/g
         [ re |-> << exportDefault \o Lit("function") \o Plus(Space) >>,
           hooks |-> FALSE, by |-> << "function", " " >> ],
         \* /export\s+default\s+(\w+)\s*;?$/gm
         [ re |-> << exportDefault \o Plus(WordChar) \o Star(Space) \o Semi
                       \o << [a |-> In({}), q |-> "eol"] >> >>,
           hooks |-> FALSE, by |-> <<>> ],
         \* /export\s+/g
         [ re |-> << Lit("export") \o Plus(Space) >>, hooks |-> FALSE, by |-> <<>> ] >>

\* the three expressions componentName tries, in order
componentNameRegex ==
  LET PascalWord == In({ "App", "Card" })   \* [A-Z][a-zA-Z0-9]*
  IN  [ \* /export\s+default\s+(?:function\s+)?(\w+)/
        exportDefault |->
          << Lit("export") \o Plus(Space) \o Lit("default") \o Plus(Space)
               \o Lit("function") \o Plus(Space) \o Plus(WordChar),
             Lit("export") \o Plus(Space) \o Lit("default") \o Plus(Space)
               \o Plus(WordChar) >>,
        \* /function\s+([A-Z][a-zA-Z0-9]*)\s*\(/
        function |->
          << Lit("function") \o Plus(Space) \o One(PascalWord) \o Star(Space)
               \o Lit("(") >>,
        \* /const\s+([A-Z][a-zA-Z0-9]*)\s*=\s*\([^)]*\)\s*=>/
        arrow |->
          << Lit("const") \o Plus(Space) \o One(PascalWord) \o Star(Space) \o Lit("=")
               \o Star(Space) \o Lit("(") \o Star(NotIn({ ")" })) \o Lit(")")
               \o Star(Space) \o Lit("=>") >> ]

\* the name is capture group 1: the last word of the first match, the first
\* word after the keyword of the others
componentName(jsxCode) ==
  LET exportDefaultMatch == RegExpExec(componentNameRegex.exportDefault, jsxCode, 1)
      functionMatch == RegExpExec(componentNameRegex.function, jsxCode, 1)
      arrowMatch == RegExpExec(componentNameRegex.arrow, jsxCode, 1)
      WordFrom(i) ==
        jsxCode[CHOOSE j \in i..Len(jsxCode) :
                  /\ jsxCode[j] \notin NonWord
                  /\ \A h \in i..(j - 1) : jsxCode[h] \in NonWord]
  IN  IF exportDefaultMatch.from # 0 THEN jsxCode[exportDefaultMatch.to - 1]
      ELSE IF functionMatch.from # 0 THEN WordFrom(functionMatch.from + 1)
      ELSE IF arrowMatch.from # 0 THEN WordFrom(arrowMatch.from + 1)
      ELSE "App"

\* ---- files of the artifact handed to the preview (parsed values)
FilesOf(a) == Get(a, << "files" >>).v
PathOf(f) == Get(f, << "path" >>)
ContentOf(f) == Get(f, << "content" >>).v
\* files.filter(f => f.path.endsWith(ext) || ...) for the extensions exts,
\* or, with keep FALSE, the files that end with none of them
FilesEnding(files, exts, keep) ==
  LET F[i \in 0..Len(files)] ==
        IF i = 0 THEN <<>>
        ELSE LET path == PathOf(files[i]).v
             IN  IF (Len(path) > 0 /\ path[Len(path)] \in exts) = keep
                   THEN Append(F[i - 1], files[i]) ELSE F[i - 1]
  IN  F[Len(files)]
Contents(files, sep) == Join([i \in DOMAIN files |-> ContentOf(files[i])], sep)

\* ---- the documents; each constant stretch of a template is one symbol
WarningDocument(packages) ==
  << "<!DOCTYPE html>", "<html>", "<head>", "<title>React Preview</title>", "</head>",
     "<body>", "<div id=npm-package-warning>" >>
    \o Join([i \in DOMAIN packages |-> << "<span>" >> \o packages[i] \o << "</span>" >>],
            << "\n" >>)
    \o << "</div>", "</body>", "</html>" >>

ReactDocument(css, jsCode, hooksSetup, jsxCode, name) ==
  << "<!DOCTYPE html>", "<html>", "<head>", "<title>React Preview</title>",
     "<script src=react.development.js>", "</script>",
     "<script src=react-dom.development.js>", "</script>",
     "<script src=babel.min.js>", "</script>",
     "<script type=module>", "twind", "</script>", "<style>", "\n" >>
    \o css \o << "\n", "</style>", "</head>", "<body>", "<div id=root>", "</div>" >>
    \o (IF jsCode # <<>> THEN << "<script>", "\n" >> \o jsCode \o << "\n", "</script>" >>
                         ELSE <<>>)
    \o << "<script>", "window.onerror", "</script>", "<script type=text/babel>", "\n" >>
    \o hooksSetup \o jsxCode
    \o << "\n", "\n", "function renderApp", "root.render(React.createElement(", name,
          "))", "</script>", "</body>", "</html>" >>

hooksSetupFor(jsxCode) ==
  LET used == usedHooks(jsxCode)
  IN  IF Len(used) > 0 /\ ~hasHooksImport(jsxCode)
        THEN Destructuring(Join([i \in DOMAIN used |-> << used[i] >>], << ",", " " >>))
               \o << "\n", "\n" >>
        ELSE <<>>

generateReactPreview(existingHtml, css, jsFiles) ==
  LET jsxOnly == FilesEnding(jsFiles, { ".jsx", ".tsx" }, TRUE)
      fallback == jsxOnly = <<>>
      jsxFiles == IF fallback THEN jsFiles ELSE jsxOnly
      regularJs == FilesEnding(jsFiles, { ".jsx", ".tsx", ".ts" }, FALSE)
      jsxCode == Contents(jsxFiles, << "\n", "\n" >>)
      jsCode == IF Len(regularJs) > 0 /\ ~fallback
                  THEN Contents(regularJs, << "\n" >>) ELSE <<>>
      packages == externalPackages(jsxCode, 1)
  IN  IF existingHtml # <<>> THEN existingHtml
      ELSE IF Len(packages) > 0 THEN WarningDocument(Unique(packages))
      ELSE ReactDocument(css, jsCode, hooksSetupFor(jsxCode),
                         ReplaceChain(jsxReplacements, jsxCode), componentName(jsxCode))

generateVuePreview(existingHtml, css, files) ==
  << "<!DOCTYPE html>", "<html>", "<head>", "<title>Vue Preview</title>",
     "<script src=vue.global.js>", "</script>", "<style>", "\n" >>
    \o css \o << "\n", "</style>", "</head>", "<body>", "<div id=app>", "</div>",
                 "<script>", "\n" >>
    \o Contents(FilesEnding(files, { ".js" }, TRUE), << "\n" >>)
    \o << "\n", "</script>", "</body>", "</html>" >>

\* the special patterns of a replacement string: $& is the matched text
RECURSIVE Expand(_, _)
Expand(replacement, matched) ==
  IF replacement = <<>> THEN <<>>
  ELSE (IF Head(replacement) = "$&" THEN << matched >> ELSE << Head(replacement) >>)
         \o Expand(Tail(replacement), matched)

\* String.prototype.replace(string, string): the first occurrence only
ReplaceFirst(html, tag, replacement) ==
  LET i == indexOf(html, tag)
  IN  IF i = 0 THEN html
      ELSE SubSeq(html, 1, i - 1) \o Expand(replacement, tag)
             \o SubSeq(html, i + 1, Len(html))

\* the result of a call: the document, or threw when f.path.endsWith is
\* called on a path that is not a string
generatePreviewHtml(artifact) ==
  LET language == Get(artifact, << "language" >>)
      files == FilesOf(artifact)
      html == FilesEnding(files, { ".html" }, TRUE)
      combinedCss == Contents(FilesEnding(files, { ".css" }, TRUE), << "\n" >>)
      jsFiles == FilesEnding(files, { ".js", ".jsx", ".ts", ".tsx" }, TRUE)
      existingHtml == IF html = <<>> THEN <<>> ELSE ContentOf(html[1])
      combinedJs == Contents(FilesEnding(jsFiles, { ".jsx" }, FALSE), << "\n" >>)
      withCss == IF combinedCss # <<>>
                   THEN ReplaceFirst(existingHtml, "</head>",
                          << "<style>", "\n" >> \o combinedCss
                            \o << "\n", "</style>", "\n", "</head>" >>)
                   ELSE existingHtml
      withJs == IF combinedJs # <<>>
                  THEN ReplaceFirst(withCss, "</body>",
                         << "<script>", "\n" >> \o combinedJs
                           \o << "\n", "</script>", "\n", "</body>" >>)
                  ELSE withCss
      threw == \E i \in DOMAIN files : PathOf(files[i]).t # "string"
  IN  [ threw |-> threw, ran |-> TRUE,
        doc |->
          IF threw THEN <<>>
          ELSE IF language = Str(<< "react" >>)
            THEN generateReactPreview(existingHtml, combinedCss, jsFiles)
          ELSE IF language = Str(<< "vue" >>)
            THEN generateVuePreview(existingHtml, combinedCss, files)
          ELSE IF html # <<>> THEN withJs
          ELSE << "<!DOCTYPE html>", "<html>", "<head>", "<title>Preview</title>",
                  "<style>", "\n" >>
                 \o combinedCss
                 \o << "\n", "</style>", "</head>", "<body>", "<div id=root>",
                       "</div>", "<script>", "\n" >>
                 \o combinedJs \o << "\n", "</script>", "</body>", "</html>" >> ]

\* ---- sanitizeHtml.  The tag names are written in two symbols each
\* ("<scr" "ipt", "<me" "ta") so that a text can hold a split name.
\* /<script[^>]*src=["']file:\/\/[^"']*["'][^>]*>/gi
fileScriptRegex ==
  << Lit("<scr") \o Lit("ipt") \o Star(NotIn({ ">" })) \o Lit("src=") \o One(QuoteChar)
       \o Lit("file://") \o Star(NotQuote) \o One(QuoteChar) \o Star(NotIn({ ">" }))
       \o Lit(">") >>
\* /<meta[^>]*http-equiv=["']refresh["'][^>]*>/gi
metaRefreshRegex ==
  << Lit("<me") \o Lit("ta") \o Star(NotIn({ ">" })) \o Lit("http-equiv=")
       \o One(QuoteChar) \o Lit("refresh") \o One(QuoteChar) \o Star(NotIn({ ">" }))
       \o Lit(">") >>

sanitizeHtml(html) ==
  ReplaceChain(<< [re |-> fileScriptRegex, hooks |-> FALSE, by |-> <<>>],
                  [re |-> metaRefreshRegex, hooks |-> FALSE, by |-> <<>>] >>, html)

\* ---- PreviewPanel and CodeCanvas
\* PreviewPanel.updatePreview, generated being the outcome of its call
\* generatePreviewHtml(artifact) inside the try: setPreviewHtml / setError
updatePreview(artifact, generated) ==
  LET panel == [NoFrame EXCEPT !.by = "PreviewPanel"]
  IN  IF Get(artifact, << "artifact_type" >>) = Str(<< "backend" >>)
        THEN [panel EXCEPT !.error = TRUE]
      ELSE IF generated.threw THEN [panel EXCEPT !.error = TRUE]
      ELSE [panel EXCEPT !.srcDoc = sanitizeHtml(generated.doc)]

\* CodeCanvas: previewHtml = isFrontend ? generatePreviewHtml(artifact) : "",
\* computed while rendering, outside any try, and handed to srcDoc as it is
renderCanvas(artifact, generated) ==
  LET canvas == [NoFrame EXCEPT !.by = "CodeCanvas"]
  IN  IF Get(artifact, << "artifact_type" >>)
           \notin { Str(<< "frontend" >>), Str(<< "hybrid" >>) }
        THEN canvas
      ELSE IF generated.threw THEN [canvas EXCEPT !.crashed = TRUE]
      ELSE [canvas EXCEPT !.srcDoc = generated.doc]

\* ---- the artifacts handed to the preview: what parseArtifact lets through
PFile(name, ext, content) == File(Str(<< name, ext >>), Str(content))

PreviewArtifact ==
  LET Frontend == Str(<< "frontend" >>)
      Page(content) == PFile("index", ".html", content)
      HtmlContents ==
        { << "<html>", "<head>", "<title>", "</head>", "<body>", "<p>", "</body>",
             "</html>" >>,
          << "<body>", "<p>", "</body>" >>,
          << "<head>", "<title>", "</head>", "<p>" >> }
      StyleFile ==
        { PFile("style", ".css", << "body", "{", "}" >>),
          PFile("theme", ".css", << "a::after", "{", "$&", "}" >>) }
      ScriptFile ==
        { PFile("app", ".js", << "init", "(", ")" >>),
          PFile("widget", ".jsx", << "Widget" >>) }
      HtmlArtifact ==
        { ArtifactValue(Frontend, Str(<< "html" >>), Arr(page \o rest), Null) :
            page \in { <<>> } \cup { << Page(c) >> : c \in HtmlContents },
            rest \in SeqUpTo(StyleFile \cup ScriptFile, MaxPreviewFiles) }
      \* import lines and component bodies of a React source
      Line(symbols) == symbols \o << ";", "\n" >>
      ImportLine ==
        { Line(<< "import", " ", "{", " ", "useState", " ", "}", " ", "from", " ",
                  Quote, "react", Quote >>),
          Line(<< "import", " ", "React", ",", " ", "{", " ", "useState", " ", "}", " ",
                  "from", " ", Quote, "react", Quote >>),
          Line(<< "import", " ", "React", " ", "from", " ", Quote, "react", Quote >>),
          Line(<< "const", " ", "{", " ", "useState", " ", "}", " ", "=", " ", "React" >>),
          Line(<< "import", " ", "{", " ", "motion", " ", "}", " ", "from", " ",
                  Quote, "framer-motion", Quote >>),
          Line(<< "import", " ", "debounce", " ", "from", " ",
                  Quote, "lodash", "/", "debounce", Quote >>),
          Line(<< "import", " ", "Button", " ", "from", " ",
                  Quote, "@org", "/", "pkg", "/", "sub", Quote >>),
          Line(<< "import", " ", "util", " ", "from", " ",
                  Quote, ".", "/", "util", Quote >>),
          Line(<< "import", " ", Quote, ".", "/", "App.css", Quote >>) }
      Body(calls) ==
        << "export", " ", "default", " ", "function", " ", "App", "(", ")", " ", "{",
           " " >> \o calls \o << "return", " ", "null", " ", "}" >>
      ComponentBody ==
        { Body(<<>>),
          Body(<< "useState", "(", "0", ")", ";", " " >>),
          Body(<< "useState", "(", "0", ")", ";", " ", "useEffect", "(", "f", ")", ";",
                  " " >>) }
      ReactArtifact ==
        { ArtifactValue(Frontend, Str(<< "react" >>),
                        Arr(<< PFile("App", ".jsx", Join(imports, <<>>) \o body) >>
                              \o page), Null) :
            imports \in SeqUpTo(ImportLine, MaxImports), body \in ComponentBody,
            page \in { <<>>, << Page(<< "<div id=root>", "</div>" >>) >> } }
      \* HTML that carries the two forbidden tags, whole or one inside the other
      FileScriptTag ==
        << "<scr", "ipt", " ", "src=", Quote, "file://", "x.js", Quote, ">" >>
      MetaRefreshTag ==
        << "<me", "ta", " ", "http-equiv=", Quote, "refresh", Quote, " ", "content=0",
           ">" >>
      ForbiddenTag == { FileScriptTag, MetaRefreshTag }
      CraftedHtml ==
             { << "<p>" >> \o tag \o << "</p>" >> : tag \in ForbiddenTag }
        \cup { << "<p>" >> \o FileScriptTag \o MetaRefreshTag \o FileScriptTag }
        \cup { SubSeq(outer, 1, k) \o inner \o SubSeq(outer, k + 1, Len(outer)) :
                 inner \in ForbiddenTag, outer \in ForbiddenTag, k \in 1..2 }
      CraftedArtifact ==
        { ArtifactValue(Frontend, Str(<< "html" >>), Arr(<< Page(c) >>), Null) :
            c \in CraftedHtml }
      \* artifacts of the other kinds, and artifacts whose file path is not a
      \* string
      OtherArtifact ==
        { ArtifactValue(Frontend, Str(<< "vue" >>),
                        Arr(<< PFile("app", ".js", << "init", "(", ")" >>),
                               PFile("style", ".css", << "body", "{", "}" >>) >>), Null),
          ArtifactValue(Str(<< "hybrid" >>), Str(<< "html" >>),
                        Arr(<< Page(<< "<p>" >> \o FileScriptTag) >>), Null),
          ArtifactValue(Backend, Python, Arr(<< GoodFile >>), RunCommand) }
        \cup { ArtifactValue(Frontend, Str(<< language >>),
                             Arr(<< File(path, Str(<< "<p>" >>)) >>), Null) :
                 language \in { "html", "react", "vue" },
                 path \in { Num("1"), Arr(<<>>), Obj(<<>>) } }
  IN  { a \in HtmlArtifact \cup ReactArtifact \cup CraftedArtifact \cup OtherArtifact :
          validateArtifact(a).val = a }

PreviewInit ==
  /\ task = [r \in Req |-> IdleTask]
  /\ envs = <<>>
  /\ origin = NoOrigin
  /\ text = <<>>
  /\ parsed = NotRun
  /\ shown \in PreviewArtifact
  /\ preview = NoPreview
  /\ frame = NoFrame
  /\ wc = NoContainer
  /\ live = IdleRun
  /\ wcPreview = NoPanel
  /\ reply = NoReply
  /\ client = NoClient

\* any caller calls generatePreviewHtml(artifact)
Generate ==
  /\ ~preview.ran
  /\ preview' = generatePreviewHtml(shown)
  /\ UNCHANGED <<execVars, parseVars, wcVars, shown, frame, uiVars>>

UpdatePreview ==
  /\ frame.by = "none"
  /\ frame' = updatePreview(shown, generatePreviewHtml(shown))
  /\ UNCHANGED <<execVars, parseVars, wcVars, shown, preview, uiVars>>

RenderCanvas ==
  /\ frame.by = "none"
  /\ frame' = renderCanvas(shown, generatePreviewHtml(shown))
  /\ UNCHANGED <<execVars, parseVars, wcVars, shown, preview, uiVars>>

PreviewNext == Generate \/ UpdatePreview \/ RenderCanvas

PreviewSpec == PreviewInit /\ [][PreviewNext]_vars

\* ---- properties of the preview
LanguageIs(a, language) == Get(a, << "language" >>) = Str(<< language >>)
StringPaths(a) == \A i \in DOMAIN FilesOf(a) : PathOf(FilesOf(a)[i]).t = "string"
HasPage(a) == FilesEnding(FilesOf(a), { ".html" }, TRUE) # <<>>
Contains(doc, part) ==
  \E i \in 1..(Len(doc) - Len(part) + 1) : SubSeq(doc, i, i + Len(part) - 1) = part

\* the component source of a React artifact
ReactCode(a) ==
  Contents(FilesEnding(FilesOf(a), { ".jsx", ".tsx" }, TRUE), << "\n", "\n" >>)

\* the module specifiers of the import statements of a source: the quoted
\* text of each statement that begins with import
ImportSpecifiers(code) ==
  { SubSeq(code, IndexFrom(code, Quote, i) + 1,
           IndexFrom(code, Quote, IndexFrom(code, Quote, i) + 1) - 1) :
      i \in { j \in DOMAIN code :
                /\ code[j] = "import"
                /\ IndexFrom(code, Quote, j) # 0
                /\ IndexFrom(code, Quote, j) < IndexFrom(code, ";", j) } }

\* the packages a source needs: the package name of every non-relative
\* specifier (two segments for a scoped package), react and react-dom apart
ExternalImports(code) ==
  { IF sp[1] \in ScopeWords THEN FirstSegments(sp, 2) ELSE FirstSegments(sp, 1) :
      sp \in { x \in ImportSpecifiers(code) : x[1] \notin { ".", "/" } } }
    \ { << "react" >>, << "react-dom" >> }

\* C13: for a react artifact whose source imports a package other than
\* react and react-dom by a non-relative specifier, generatePreviewHtml
\* returns the warning document, which names every such package and holds
\* no script that renders the component.
C13_ExternalPackagesWarned ==
  (/\ preview.ran /\ LanguageIs(shown, "react") /\ StringPaths(shown)
   /\ ExternalImports(ReactCode(shown)) # {}) =>
     /\ ~preview.threw
     /\ Contains(preview.doc, << "<div id=npm-package-warning>" >>)
     /\ \A pkg \in ExternalImports(ReactCode(shown)) :
          Contains(preview.doc, << "<span>" >> \o pkg \o << "</span>" >>)
     /\ ~Contains(preview.doc, << "root.render(React.createElement(" >>)

\* hook is destructured from React by a statement that ends before position p
BoundBefore(doc, hook, p) ==
  \E i \in 1..(p - 1) :
    LET m == RegExpExec(constFromReactRegex, doc, i)
    IN  m.from = i /\ m.to <= p /\ \E j \in m.from..(m.to - 1) : doc[j] = hook

\* C14: in the document the lightweight compiler emits for a React source
\* (no external package, no .html file), every hook of the fixed set that
\* is called is destructured from React before its first call.
C14_UsedHooksBound ==
  (/\ preview.ran /\ ~preview.threw /\ LanguageIs(shown, "react")
   /\ StringPaths(shown) /\ ~HasPage(shown)
   /\ ExternalImports(ReactCode(shown)) = {}) =>
     \A k \in DOMAIN reactHooks :
       LET p == RegExpExec(hookCallRegex(reactHooks[k]), preview.doc, 1).from
       IN  p # 0 => BoundBefore(preview.doc, reactHooks[k], p)

\* C15: generatePreviewHtml returns a document, and never throws, for every
\* artifact that parseArtifact accepts.
C15_NeverThrows == preview.ran => ~preview.threw

\* C16: a document that PreviewPanel or CodeCanvas puts into its iframe
\* holds no script tag with a file:// src and no meta refresh tag.
C16_NoForbiddenTagInFrame ==
  frame.by # "none" =>
    /\ ~RegExpTest(fileScriptRegex, frame.srcDoc)
    /\ ~RegExpTest(metaRefreshRegex, frame.srcDoc)

\* part stands verbatim in doc, and before the first tag when doc has one
PlacedBefore(doc, part, tag) ==
  \E i \in 1..(Len(doc) - Len(part) + 1) :
    /\ SubSeq(doc, i, i + Len(part) - 1) = part
    /\ indexOf(doc, tag) # 0 => i + Len(part) - 1 < indexOf(doc, tag)

\* C17: for an html artifact with an HTML file, the returned document holds
\* the contents of the .css files, joined in file order, before the closing
\* head tag, and the contents of the non-component JS files, joined in file
\* order, before the closing body tag, whatever the HTML file holds.
C17_StylesAndScriptsInjected ==
  (/\ preview.ran /\ LanguageIs(shown, "html") /\ StringPaths(shown)
   /\ HasPage(shown)) =>
     LET css == Contents(FilesEnding(FilesOf(shown), { ".css" }, TRUE), << "\n" >>)
         js == Contents(FilesEnding(FilesOf(shown), { ".js", ".ts", ".tsx" }, TRUE),
                         << "\n" >>)
     IN  /\ ~preview.threw
         /\ css # <<>> => PlacedBefore(preview.doc, css, "</head>")
         /\ js # <<>> => PlacedBefore(preview.doc, js, "</body>")

\* ============================================ Part 4: WebContainer manager
\* ---- getWebContainer.  A call runs from one await to the next in one
\* step; continuations run in the order of the microtask queue.
Return(st, c, instance) ==
  [st EXCEPT !.calls[c] = [pc |-> "returned", awaiting |-> 0, result |-> instance]]
RejectCall(st, c) ==
  [st EXCEPT !.calls[c] = [pc |-> "threw", awaiting |-> 0, result |-> 0]]
\* line 129: throw new Error("WebContainer session expired. ...")
SessionExpired(st, c) ==
  [st EXCEPT !.calls[c] = [pc |-> "session expired", awaiting |-> 0, result |-> 0]]

\* await promise: the continuation is queued when the promise settles, at
\* once when it has settled already
Await(st, c, promise, at) ==
  LET s1 == [st EXCEPT !.calls[c] = [pc |-> at, awaiting |-> promise, result |-> 0]]
  IN  IF st.boots[promise].state = "pending"
        THEN [s1 EXCEPT !.boots[promise].waiters = Append(@, c)]
        ELSE [s1 EXCEPT !.microtasks = Append(@, c)]

\* lines 108-111: bootPromise = WebContainer.boot(); await bootPromise
Boot(st, c) ==
  LET promise == Len(st.boots) + 1
  IN  [st EXCEPT
         !.boots = Append(@, [state |-> "pending", waiters |-> << c >>,
                              overlap |-> \E b \in DOMAIN st.boots :
                                            st.boots[b].state \in { "pending", "ok" }]),
         !.bootPromise = promise,
         !.window.promise = promise,
         !.calls[c] = [pc |-> "own boot", awaiting |-> promise, result |-> 0]]

\* lines 96-113
AwaitBootPromise(st, c) ==
  IF st.bootPromise # 0 THEN Await(st, c, st.bootPromise, "boot promise")
  ELSE Boot(st, c)

\* lines 72-94: from the call to the first await
OnGetWebContainer(st, c) ==
  IF st.window.instance # 0
    THEN Return([st EXCEPT !.webContainerInstance = st.window.instance], c,
                st.window.instance)
  ELSE IF st.webContainerInstance # 0 THEN Return(st, c, st.webContainerInstance)
  ELSE IF st.window.promise # 0
    THEN Await(st, c, st.window.promise, "persisted promise")
  ELSE AwaitBootPromise(st, c)

OnSettledNoReuse(st, c) ==
  LET promise == st.calls[c].awaiting
      outcome == st.boots[promise].state
      got == [st EXCEPT !.webContainerInstance = promise, !.window.instance = promise]
  IN  CASE st.calls[c].pc = "persisted promise" ->
             IF outcome = "ok" THEN Return(got, c, promise) ELSE AwaitBootPromise(st, c)
        [] st.calls[c].pc = "boot promise" ->
             IF outcome = "ok" THEN Return(got, c, promise)
             ELSE Boot([st EXCEPT !.bootPromise = 0], c)
        [] st.calls[c].pc = "own boot" ->
             IF outcome = "ok" THEN Return(got, c, promise)
             ELSE IF outcome = "single instance" THEN SessionExpired(st, c)
             ELSE RejectCall([st EXCEPT !.bootPromise = 0], c)

\* the continuation of call c after its await
OnSettled(st, c) ==
  LET promise == st.calls[c].awaiting
      outcome == st.boots[promise].state
      got == [st EXCEPT !.webContainerInstance = promise, !.window.instance = promise]
  IN  CASE st.calls[c].pc = "persisted promise" ->
             IF outcome = "ok" THEN Return(got, c, promise) ELSE AwaitBootPromise(st, c)
        [] st.calls[c].pc = "boot promise" ->
             IF outcome = "ok" THEN Return(got, c, promise)
             ELSE Boot([st EXCEPT !.bootPromise = 0], c)
        [] st.calls[c].pc = "own boot" ->
             IF outcome = "ok" THEN Return(got, c, promise)
             ELSE IF outcome = "single instance"
               THEN (IF st.window.instance # 0
                       THEN Return([st EXCEPT !.webContainerInstance = st.window.instance],
                                   c, st.window.instance)
                       ELSE SessionExpired(st, c))
             ELSE RejectCall([st EXCEPT !.bootPromise = 0], c)

GetWebContainer(c) ==
  /\ wc.calls[c].pc = "idle"
  /\ wc' = OnGetWebContainer(wc, c)
  /\ UNCHANGED <<execVars, parseVars, previewVars, live, uiVars>>

\* WebContainer.boot() resolves, rejects with "Only a single WebContainer
\* instance can be booted", or rejects with another error
BootSettles(promise) ==
  /\ promise \in DOMAIN wc.boots
  /\ wc.boots[promise].state = "pending"
  /\ wc.microtasks = <<>>
  /\ \E outcome \in { "ok", "single instance", "other error" } :
       wc' = [wc EXCEPT !.boots[promise].state = outcome,
                        !.microtasks = wc.boots[promise].waiters]
  /\ UNCHANGED <<execVars, parseVars, previewVars, live, uiVars>>

Resume ==
  /\ wc.microtasks # <<>>
  /\ wc' = OnSettled([wc EXCEPT !.microtasks = Tail(@)], Head(wc.microtasks))
  /\ UNCHANGED <<execVars, parseVars, previewVars, live, uiVars>>

BootNext ==
  \/ \E c \in Calls : GetWebContainer(c)
  \/ \E promise \in 1..NumCalls : BootSettles(promise)
  \/ Resume

BootSpec == Init /\ [][BootNext]_vars

\* ---- getWebContainer in a tab where WebContainer.boot() keeps its
\* contract: a boot waits for the boots requested before it, and it rejects
\* with the single-instance error when a container is live by then, and only
\* then
BootSettlesInTab(promise) ==
  /\ promise \in DOMAIN wc.boots
  /\ wc.boots[promise].state = "pending"
  /\ \A b \in 1..(promise - 1) : wc.boots[b].state # "pending"
  /\ wc.microtasks = <<>>
  /\ \E outcome \in { "ok", "single instance", "other error" } :
       /\ outcome = "single instance"
            <=> (wc.foreign \/ \E b \in DOMAIN wc.boots : wc.boots[b].state = "ok")
       /\ wc' = [wc EXCEPT !.boots[promise].state = outcome,
                           !.microtasks = wc.boots[promise].waiters]
  /\ UNCHANGED <<execVars, parseVars, previewVars, live, uiVars>>

\* lines 122-124: the other copy of the module persists its instance
\* ("might have been set by another module")
OtherModulePersists ==
  /\ wc.foreign
  /\ wc.window.instance = 0
  /\ wc' = [wc EXCEPT !.window.instance = -1]
  /\ UNCHANGED <<execVars, parseVars, previewVars, live, uiVars>>

TabInit ==
  /\ task = [r \in Req |-> IdleTask]
  /\ envs = <<>>
  /\ origin = NoOrigin
  /\ text = <<>>
  /\ parsed = NotRun
  /\ shown = NotRun
  /\ preview = NoPreview
  /\ frame = NoFrame
  /\ wc \in { [NoContainer EXCEPT !.foreign = b] : b \in BOOLEAN }
  /\ live = IdleRun
  /\ wcPreview = NoPanel
  /\ reply = NoReply
  /\ client = NoClient

TabNext ==
  \/ \E c \in Calls : GetWebContainer(c)
  \/ \E promise \in 1..NumCalls : BootSettlesInTab(promise)
  \/ Resume
  \/ OtherModulePersists

TabSpec == TabInit /\ [][TabNext]_vars

\* C18: WebContainer.boot() is never invoked while another boot is pending
\* or after one succeeded, and all calls that return give the same instance.
C18_SingleBoot ==
  /\ \A b \in DOMAIN wc.boots : ~wc.boots[b].overlap
  /\ \A c, d \in Calls :
       (wc.calls[c].pc = "returned" /\ wc.calls[d].pc = "returned") =>
         wc.calls[c].result = wc.calls[d].result

\* ---- runInWebContainer, its teardown handle and cleanupWebContainer
onStatus(st, stage) == [st EXCEPT !.statuses = Append(@, stage)]
Failed(st) == [st EXCEPT !.pc = "threw"]

\* process.kill() of the dev server ("dev") or of an earlier run's process
Kill(st, process) ==
  IF process = "dev" THEN [st EXCEPT !.kills.dev = @ + 1]
  ELSE [st EXCEPT !.kills.previous = @ + 1]

\* cleanupWebContainer: kills and forgets the active process, if any
cleanupWebContainer(st, activeProcess) ==
  IF activeProcess # "none" THEN Kill(st, activeProcess) ELSE st

\* lines 441-458: to the await of getWebContainer()
RunInWebContainer ==
  /\ live.pc = "idle"
  /\ \E supported \in BOOLEAN :
       IF ~supported
         THEN /\ live' = Failed(onStatus(live, "error"))
              /\ wc' = wc
         ELSE /\ live' = [onStatus(cleanupWebContainer(live, wc.activeProcess), "booting")
                            EXCEPT !.pc = "container"]
              /\ wc' = [wc EXCEPT !.activeProcess = "none"]
  /\ UNCHANGED <<execVars, parseVars, previewVars, uiVars>>

\* lines 458-503: getWebContainer() resolves or rejects; then mount
ContainerReturns ==
  /\ live.pc = "container"
  /\ \E ok \in BOOLEAN :
       live' = IF ok THEN [onStatus(live, "booting") EXCEPT !.pc = "mount"]
               ELSE Failed(live)
  /\ UNCHANGED <<execVars, parseVars, previewVars, wc, uiVars>>

\* lines 503-521: mount resolves or rejects; then spawn npm install
MountReturns ==
  /\ live.pc = "mount"
  /\ \E ok \in BOOLEAN :
       live' = IF ok THEN [onStatus(live, "installing") EXCEPT !.pc = "spawn install"]
               ELSE Failed(live)
  /\ UNCHANGED <<execVars, parseVars, previewVars, wc, uiVars>>

\* lines 521-535: the install process is spawned; its output is piped
SpawnInstallReturns ==
  /\ live.pc = "spawn install"
  /\ \E ok \in BOOLEAN :
       live' = IF ok THEN [live EXCEPT !.pc = "install exit", !.install = "running",
                                       !.piped = TRUE]
               ELSE Failed(live)
  /\ UNCHANGED <<execVars, parseVars, previewVars, wc, uiVars>>

\* the install process writes a chunk, with or without the word "added"
InstallOutput ==
  /\ live.install = "running"
  /\ live.emitted < MaxChunks
  /\ \E added \in BOOLEAN :
       live' = [live EXCEPT !.emitted = @ + 1, !.pending = Append(@, added)]
  /\ UNCHANGED <<execVars, parseVars, previewVars, wc, uiVars>>

\* lines 525-531: the sink's write(data) receives the next chunk
WriteChunk ==
  /\ live.piped
  /\ live.pending # <<>>
  /\ live' = LET st == [live EXCEPT !.pending = Tail(@)]
             IN  IF Head(live.pending) THEN onStatus(st, "installing") ELSE st
  /\ UNCHANGED <<execVars, parseVars, previewVars, wc, uiVars>>

\* lines 535-548: installProcess.exit resolves
InstallExits ==
  /\ live.pc = "install exit"
  /\ \E installExitCode \in { 0, 1 } :
       live' = IF installExitCode # 0
                 THEN Failed([onStatus(live, "error") EXCEPT !.install = "exited"])
                 ELSE [onStatus(live, "starting") EXCEPT !.install = "exited",
                                                         !.pc = "spawn dev"]
  /\ UNCHANGED <<execVars, parseVars, previewVars, wc, uiVars>>

\* lines 548-582: the dev server is spawned; the handle is returned
SpawnDevReturns ==
  /\ live.pc = "spawn dev"
  /\ \E ok \in BOOLEAN :
       IF ok THEN /\ live' = [live EXCEPT !.pc = "returned", !.listening = TRUE]
                  /\ wc' = [wc EXCEPT !.activeProcess = "dev"]
             ELSE /\ live' = Failed(live)
                  /\ wc' = wc
  /\ UNCHANGED <<execVars, parseVars, previewVars, uiVars>>

\* lines 567-574: the server-ready event
ServerReady ==
  /\ live.listening
  /\ ~live.serverReadyCalled
  /\ live' = [onStatus(live, "ready") EXCEPT !.serverReadyCalled = TRUE]
  /\ UNCHANGED <<execVars, parseVars, previewVars, wc, uiVars>>

\* lines 578-581: the returned teardown()
Teardown ==
  /\ live.pc = "returned"
  /\ live.teardowns < MaxTeardowns
  /\ live' = [Kill(live, "dev") EXCEPT !.teardowns = @ + 1]
  /\ wc' = [wc EXCEPT !.activeProcess = "none"]
  /\ UNCHANGED <<execVars, parseVars, previewVars, uiVars>>

\* a later cleanupWebContainer() call
CleanupWebContainer ==
  /\ live.pc = "returned"
  /\ live.cleanups < MaxTeardowns
  /\ live' = [cleanupWebContainer(live, wc.activeProcess) EXCEPT !.cleanups = @ + 1]
  /\ wc' = [wc EXCEPT !.activeProcess = "none"]
  /\ UNCHANGED <<execVars, parseVars, previewVars, uiVars>>

\* a run may start while an earlier run's dev server is still tracked
RunInit ==
  /\ task = [r \in Req |-> IdleTask]
  /\ envs = <<>>
  /\ origin = NoOrigin
  /\ text = <<>>
  /\ parsed = NotRun
  /\ shown = NotRun
  /\ preview = NoPreview
  /\ frame = NoFrame
  /\ wc \in { [NoContainer EXCEPT !.activeProcess = p] : p \in { "none", "previous" } }
  /\ live = IdleRun
  /\ wcPreview = NoPanel
  /\ reply = NoReply
  /\ client = NoClient

RunNext ==
  \/ RunInWebContainer
  \/ ContainerReturns
  \/ MountReturns
  \/ SpawnInstallReturns
  \/ InstallOutput
  \/ WriteChunk
  \/ InstallExits
  \/ SpawnDevReturns
  \/ ServerReady
  \/ Teardown
  \/ CleanupWebContainer

RunSpec == RunInit /\ [][RunNext]_vars

StageRank(stage) ==
  CASE stage = "booting" -> 1
    [] stage = "installing" -> 2
    [] stage = "starting" -> 3
    [] stage = "ready" -> 4
    [] stage = "error" -> 5

\* C19: the stages one run reports through onStatus never move backwards
\* along booting, installing, starting, ready, error.
C19_StagesMoveForward ==
  \A i, j \in DOMAIN live.statuses :
    i < j => StageRank(live.statuses[i]) <= StageRank(live.statuses[j])

\* C20: over all teardown calls on one handle and all later
\* cleanupWebContainer calls, kill is invoked on the dev server at most once.
C20_TeardownIdempotent == live.kills.dev <= 1

\* ==================================== Part 5: WebContainerPreview and its runs
\* Several runInWebContainer calls share the container and the module's
\* activeProcess.  A step is the code between two awaits that wait for the
\* container; awaits that settle within the same task (the teardown handle,
\* cleanupWebContainer) are part of the step that reaches them.
Awaits == << "container", "mount", "spawn install", "install exit", "spawn dev" >>
Provisioning(st, r) == \E i \in DOMAIN Awaits : st.runs[r].pc = Awaits[i]

\* devProcess.kill() of run p
killDev(st, p) == [st EXCEPT !.runs[p].dev = "killed"]

\* webcontainer.ts 578-581: the teardown handle of run r
teardown(st, r) ==
  killDev([st EXCEPT !.activeProcess = 0, !.runs[r].torn = TRUE], r)

\* webcontainer.ts 148-157
cleanupActive(st) ==
  IF st.activeProcess # 0 THEN killDev([st EXCEPT !.activeProcess = 0], st.activeProcess)
  ELSE st

\* a callback or continuation of run r reaches the component instance that
\* started the run; the state of an instance that was replaced is gone
Own(st, r) == st.runs[r].inst = st.inst
setStatus(st, r, stage, message) ==
  IF Own(st, r) THEN [st EXCEPT !.status = Status(stage, message)] ELSE st

\* CanvasContext.tsx 166-173: runInWebContainer rejected
catchError(st, r, message) ==
  [(IF Own(st, r) THEN [st EXCEPT !.status = Status("error", message),
                                  !.isStartingRef = FALSE]
    ELSE st) EXCEPT !.runs[r].pc = "threw"]

\* webcontainer.ts 441-458: runInWebContainer up to the await of
\* getWebContainer(), or to the throw when the browser lacks cross-origin
\* isolation
runInWebContainer(st, r, supported) ==
  IF ~supported THEN catchError(st, r, "")
  ELSE setStatus([cleanupActive(st) EXCEPT !.runs[r].pc = "container"], r, "booting", "")

\* CanvasContext.tsx 138-164: startContainer up to the first await of run r
\* that waits for the container
startContainer(st, r, supported) ==
  IF st.isStartingRef THEN st
  ELSE runInWebContainer(
         [(IF st.teardownRef # 0 THEN teardown(st, st.teardownRef) ELSE st)
            EXCEPT !.teardownRef = 0, !.isStartingRef = TRUE, !.previewUrl = 0,
                   !.runs[r].inst = st.inst],
         r, supported)

\* the next runInWebContainer call is run NextRun
NextRun(st) == Cardinality({ r \in Runs : st.runs[r].pc # "idle" }) + 1

\* CanvasContext.tsx 176-184: the mount effect
MountEffect ==
  /\ wcPreview.mounted /\ ~wcPreview.effectRan
  /\ NextRun(wcPreview) \in Runs
  /\ \E supported \in BOOLEAN :
       wcPreview' = startContainer([wcPreview EXCEPT !.effectRan = TRUE],
                                   NextRun(wcPreview), supported)
  /\ UNCHANGED <<execVars, parseVars, previewVars, wcVars, reply, client>>

\* CanvasContext.tsx 218-251, 305-312: the view has a Retry or Restart button
HasRestartButton(st) ==
  IF st.status.stage # "ready" /\ st.previewUrl = 0
    THEN st.status.stage = "error" /\ st.status.message # "refresh"
    ELSE TRUE

\* CanvasContext.tsx 187-190: handleRestart
HandleRestart ==
  /\ wcPreview.mounted /\ wcPreview.effectRan
  /\ HasRestartButton(wcPreview)
  /\ NextRun(wcPreview) \in Runs
  /\ \E supported \in BOOLEAN :
       wcPreview' = startContainer([wcPreview EXCEPT !.isStartingRef = FALSE],
                                   NextRun(wcPreview), supported)
  /\ UNCHANGED <<execVars, parseVars, previewVars, wcVars, reply, client>>

\* CanvasContext.tsx 181-183: the cleanup of the mount effect
Unmount ==
  /\ wcPreview.mounted /\ wcPreview.effectRan
  /\ wcPreview' =
       [(IF wcPreview.teardownRef # 0 THEN teardown(wcPreview, wcPreview.teardownRef)
         ELSE wcPreview)
          EXCEPT !.mounted = FALSE,
                 !.runs = [r \in Runs |->
                             [@[r] EXCEPT !.orphan = Provisioning(wcPreview, r)]]]
  /\ UNCHANGED <<execVars, parseVars, previewVars, wcVars, reply, client>>

\* CanvasContext.tsx 98-115: the component is mounted again; a new instance
\* has fresh state and refs
Remount ==
  /\ ~wcPreview.mounted
  /\ NextRun(wcPreview) \in Runs
  /\ wcPreview' = [wcPreview EXCEPT !.inst = @ + 1, !.mounted = TRUE,
                     !.effectRan = FALSE, !.isStartingRef = FALSE, !.teardownRef = 0,
                     !.status = Status("idle", ""), !.previewUrl = 0]
  /\ UNCHANGED <<execVars, parseVars, previewVars, wcVars, reply, client>>

\* webcontainer.ts 458-548: the awaits before the dev server is spawned;
\* each resolves or rejects (installProcess.exit resolves with a code)
Provision(r) ==
  /\ wcPreview.runs[r].pc \in { "container", "mount", "spawn install", "install exit" }
  /\ \E ok \in BOOLEAN, message \in { "", "refresh" } :
       /\ message = "refresh" => (~ok /\ wcPreview.runs[r].pc = "container")
       /\ wcPreview' =
            CASE ~ok /\ wcPreview.runs[r].pc = "install exit" ->
                   catchError(setStatus(wcPreview, r, "error", ""), r, "")
              [] ~ok /\ wcPreview.runs[r].pc # "install exit" ->
                   catchError(wcPreview, r, message)
              [] ok /\ wcPreview.runs[r].pc = "container" ->
                   setStatus([wcPreview EXCEPT !.runs[r].pc = "mount"], r, "booting", "")
              [] ok /\ wcPreview.runs[r].pc = "mount" ->
                   setStatus([wcPreview EXCEPT !.runs[r].pc = "spawn install"],
                             r, "installing", "")
              [] ok /\ wcPreview.runs[r].pc = "spawn install" ->
                   [wcPreview EXCEPT !.runs[r].pc = "install exit"]
              [] ok /\ wcPreview.runs[r].pc = "install exit" ->
                   setStatus([wcPreview EXCEPT !.runs[r].pc = "spawn dev"],
                             r, "starting", "")
  /\ UNCHANGED <<execVars, parseVars, previewVars, wcVars, reply, client>>

\* webcontainer.ts 548-582 with CanvasContext.tsx 155-173: spawn of the dev
\* server settles; the handle is returned and startContainer keeps it
DevSpawned(r) ==
  /\ wcPreview.runs[r].pc = "spawn dev"
  /\ \E ok \in BOOLEAN :
       wcPreview' =
         IF ~ok THEN catchError(wcPreview, r, "")
         ELSE LET st == [wcPreview EXCEPT !.activeProcess = r,
                                          !.runs[r].pc = "returned",
                                          !.runs[r].dev = "alive",
                                          !.runs[r].listening = TRUE]
              IN  IF Own(st, r) THEN [st EXCEPT !.teardownRef = r, !.isStartingRef = FALSE]
                  ELSE st
  /\ UNCHANGED <<execVars, parseVars, previewVars, wcVars, reply, client>>

\* webcontainer.ts 567-574: the dev server of run p opens its port and the
\* container raises server-ready; every listener registered on it is called
ServerReadyEvent(p) ==
  /\ wcPreview.runs[p].dev = "alive"
  /\ ~wcPreview.runs[p].raised
  /\ LET Called(r) == wcPreview.runs[r].listening /\ ~wcPreview.runs[r].serverReadyCalled
     IN  wcPreview' =
           [wcPreview EXCEPT
              !.runs = [r \in Runs |->
                          IF Called(r)
                            THEN [@[r] EXCEPT !.serverReadyCalled = TRUE, !.ready = @ + 1,
                                              !.foreign = (r # p),
                                              !.late = wcPreview.runs[r].torn,
                                              !.raised = @ \/ r = p]
                            ELSE [@[r] EXCEPT !.raised = @ \/ r = p]],
              !.status = IF \E r \in Runs : Called(r) /\ Own(wcPreview, r)
                           THEN Status("ready", "") ELSE @,
              !.previewUrl = IF \E r \in Runs : Called(r) /\ Own(wcPreview, r)
                               THEN p ELSE @]
  /\ UNCHANGED <<execVars, parseVars, previewVars, wcVars, reply, client>>

PanelNext ==
  \/ MountEffect
  \/ HandleRestart
  \/ Unmount
  \/ Remount
  \/ \E r \in Runs : Provision(r)
  \/ \E r \in Runs : DevSpawned(r)
  \/ \E p \in Runs : ServerReadyEvent(p)

PanelSpec == Init /\ [][PanelNext]_vars

\* every await of a run settles
PanelFairSpec ==
  PanelSpec /\ \A r \in Runs : WF_vars(Provision(r)) /\ WF_vars(DevSpawned(r))

\* C21: a run that was still provisioning when its component unmounted
\* ends with no dev server of its own alive.
C21_UnmountKillsRun ==
  \A r \in Runs :
    wcPreview.runs[r].orphan ~>
      (wcPreview.runs[r].pc \in { "returned", "threw" } /\ wcPreview.runs[r].dev # "alive")

\* C27: at most one spawned dev server has not been killed, and activeProcess
\* refers to it.
C27_OneTrackedDevServer ==
  \A r \in Runs : wcPreview.runs[r].dev = "alive" => wcPreview.activeProcess = r

\* C28: a run's onServerReady is delivered at most once, for an event of its
\* own dev server, and not after its teardown was invoked.
C28_ReadyOnlyForOwnServer ==
  \A r \in Runs :
    /\ wcPreview.runs[r].ready <= 1
    /\ ~wcPreview.runs[r].foreign
    /\ ~wcPreview.runs[r].late

\* ================================== Part 6: POST /api/playground/generate
\* The handler awaits getAuthSession, request.json() and generateText; each
\* resolves or rejects.
\* route.ts 80-90: catch (error)
GenerateCatch(st, error) ==
  [st EXCEPT !.pc = "done",
             !.response = GenerateResponse(500, Undefined, error, <<>>)]

\* route.ts 24-27: POST up to the await of getAuthSession
OnGenerate(st, session, body) ==
  [st EXCEPT !.pc = "auth", !.session = session, !.body = body]

\* route.ts 27-36: the session arrives; then await request.json()
OnSession(st) ==
  CASE st.session = "throws" -> GenerateCatch(st, "Internal server error")
    [] st.session = "none" ->
         [st EXCEPT !.pc = "done",
                    !.response = GenerateResponse(401, Undefined, "Unauthorized", <<>>)]
    [] st.session = "user" -> [st EXCEPT !.pc = "json"]

\* route.ts 36-54: the body arrives; the prompt is checked and generateText is
\* called.  body: request.json() throws ("invalid"), or gives null, an object
\* without prompt, with prompt "" , with a number as prompt, or with a prompt
OnBody(st) ==
  CASE st.body = "invalid" -> GenerateCatch(st, "Unexpected end of JSON input")
    [] st.body = "null" ->
         GenerateCatch(st, "Cannot read properties of null (reading 'prompt')")
    [] st.body \in { "no prompt", "empty prompt", "number prompt" } ->
         [st EXCEPT !.pc = "done",
                    !.response = GenerateResponse(400, Undefined, "Prompt is required", <<>>)]
    [] st.body = "prompt" -> [st EXCEPT !.pc = "llm", !.llmCalls = @ + 1]

\* usage.inputTokens || 0 ; an absent count is -1
OrZero(n) == IF n < 0 THEN 0 ELSE n

\* route.ts 69-78: the usage of the response; usage is <<>> when undefined,
\* else << inputTokens, outputTokens >>
UsageOf(usage) ==
  IF usage = <<>> THEN <<>>
  ELSE << OrZero(usage[1]), OrZero(usage[2]), OrZero(usage[1]) + OrZero(usage[2]) >>

OnLlmReturnUsageRequired(st, output, usage) ==
  LET artifact == parseArtifact(output)
  IN  [st EXCEPT !.pc = "done", !.text = output, !.usage = usage,
         !.response =
            IF ~Truthy(artifact) \/ usage = <<>>
              THEN GenerateResponse(500, Undefined,
                     "Failed to generate valid artifact. Please try again.", <<>>)
              ELSE GenerateResponse(200, artifact, "", UsageOf(usage))]

\* route.ts 49-78: generateText resolved with { text, usage }
OnLlmReturn(st, output, usage) ==
  LET artifact == parseArtifact(output)
  IN  [st EXCEPT !.pc = "done", !.text = output, !.usage = usage,
         !.response =
            IF ~Truthy(artifact)
              THEN GenerateResponse(500, Undefined,
                     "Failed to generate valid artifact. Please try again.", <<>>)
              ELSE GenerateResponse(200, artifact, "", UsageOf(usage))]

\* what generateText resolves to: the text of the answer and the usage
LlmOutputs ==
  { Wrap(Stringify(a), w) :
      a \in { ArtifactValue(Backend, Python, Arr(<< GoodFile >>), Null),
              ArtifactValue(Str(<< "frontend" >>), Str(<< "html" >>),
                            Arr(<< GoodFile, GoodFile >>), Null),
              ArtifactValue(Backend, Python, Arr(<<>>), Null) },
      w \in Wraps } \cup { <<>>, << "Sorry" >> }
LlmUsages == { <<>> } \cup { << i, o >> : i \in { -1, 3 }, o \in { -1, 5 } }

GenerateReceive ==
  /\ reply.pc = "idle"
  /\ \E session \in { "user", "none", "throws" },
        body \in { "invalid", "null", "no prompt", "empty prompt", "number prompt",
                   "prompt" } :
       reply' = OnGenerate(reply, session, body)
  /\ UNCHANGED <<execVars, parseVars, previewVars, wcVars, wcPreview, client>>

SessionReturns ==
  /\ reply.pc = "auth"
  /\ reply' = OnSession(reply)
  /\ UNCHANGED <<execVars, parseVars, previewVars, wcVars, wcPreview, client>>

BodyReturns ==
  /\ reply.pc = "json"
  /\ reply' = OnBody(reply)
  /\ UNCHANGED <<execVars, parseVars, previewVars, wcVars, wcPreview, client>>

LlmReturns ==
  /\ reply.pc = "llm"
  /\ \E output \in LlmOutputs, usage \in LlmUsages :
       reply' = OnLlmReturn(reply, output, usage)
  /\ UNCHANGED <<execVars, parseVars, previewVars, wcVars, wcPreview, client>>

\* generateText rejects, with an Error or with another value
LlmThrows ==
  /\ reply.pc = "llm"
  /\ \E error \in { "quota exceeded", "Internal server error" } :
       reply' = GenerateCatch(reply, error)
  /\ UNCHANGED <<execVars, parseVars, previewVars, wcVars, wcPreview, client>>

GenerateNext ==
  GenerateReceive \/ SessionReturns \/ BodyReturns \/ LlmReturns \/ LlmThrows

GenerateSpec == Init /\ [][GenerateNext]_vars

\* ---- the execute routes on artifacts with a run command
\* types.ts 40-41: run is null (here <<>>) or a command; a command is
\* modelled by the path of the file it names, e.g. "python src/util.py"
EntryRequests ==
  { [auth |-> TRUE, body |-> "artifact", apiKey |-> TRUE,
     artifact |-> [artifact_type |-> "backend", language |-> l, files |-> f, run |-> c]] :
      l \in BACKEND_LANGUAGES, f \in SeqUpTo(ArtifactFile, MaxFiles),
      c \in { <<>> } \cup { file.path : file \in ArtifactFile } }

EntryNext ==
  \/ Receive(1, { q \in EntryRequests :
                    q.artifact.run # <<>> =>
                      \E i \in DOMAIN q.artifact.files :
                        q.artifact.files[i].path = q.artifact.run })
  \/ CreateReturn(1)
  \/ MkdirReturn(1, BOOLEAN)
  \/ WriteReturn(1)
  \/ RunReturn(1, ConcExecutions)
  \/ RunThrow(1)
  \/ KillReturn(1, BOOLEAN)
  \/ Cancel(1)

EntrySpec == Init /\ [][EntryNext]_vars

(***************************************************************************)
(* Part 7: the playground client, usePlayground (src/unnamed/part_001),    *)
(* with buildFileTree (src/unnamed/part_013) and the reader of the         *)
(* execution stream.  A path is the sequence of its symbols, "/" among     *)
(* them; a tree level is a sequence of nodes.                              *)
(***************************************************************************)
ClientPaths == { << "main.py" >>, << "src", "/", "util.py" >>, << "src", "/", "app.py" >> }
ClientFile(path, content) == [path |-> path, content |-> content]
ClientArtifact(files) == [isNull |-> FALSE, files |-> files]
NullArtifact == [isNull |-> TRUE, files |-> <<>>]

\* the artifacts a generation can return: 1..MaxClientFiles files, distinct paths
ClientArtifacts ==
  { ClientArtifact([i \in DOMAIN ps |-> ClientFile(ps[i], "x")]) :
      ps \in { q \in SeqUpTo(ClientPaths, MaxClientFiles) :
                 Len(q) > 0 /\ \A i, j \in DOMAIN q : i # j => q[i] # q[j] } }

\* a.localeCompare(b) on the names in use: negative, zero or positive
NameOrder == << "app.py", "main.py", "src", "util.py" >>
NameRank(name) == CHOOSE i \in DOMAIN NameOrder : NameOrder[i] = name[1]
localeCompare(a, b) == NameRank(a) - NameRank(b)

\* the extension switch, for the names in use
getLanguageFromPath(path) ==
  IF path[Len(path)] \in { "main.py", "util.py", "app.py" } THEN "python" ELSE "javascript"

\* the inner loop of buildFileTree from segment i on: find the node named
\* parts[i] on this level or push a new one, then descend into its children
\* when it is not the last segment and the node has children
RECURSIVE InsertPath(_, _, _)
InsertPath(level, parts, i) ==
  LET isFile == i = Len(parts)
      currentPath == Join(SubSeq(parts, 1, i), << "/" >>)
      hits == { n \in DOMAIN level : level[n].name = parts[i] }
      pushed == IF hits # {} THEN level
                ELSE Append(level,
                       [name |-> parts[i], path |-> currentPath,
                        type |-> IF isFile THEN "file" ELSE "folder",
                        language |-> IF isFile THEN getLanguageFromPath(currentPath)
                                     ELSE "undefined",
                        children |-> <<>>])
      at == IF hits # {} THEN CHOOSE n \in hits : \A m \in hits : n <= m
            ELSE Len(level) + 1
  IN  IF isFile THEN pushed
      ELSE IF pushed[at].type = "folder"
        THEN [pushed EXCEPT ![at].children = InsertPath(@, parts, i + 1)]
      ELSE InsertPath(pushed, parts, i + 1)

\* the comparator of sortNodes: a goes strictly before b
SortsBefore(a, b) ==
  IF a.type # b.type THEN a.type = "folder" ELSE localeCompare(a.name, b.name) < 0

\* Array.prototype.sort is stable: a node goes before the first node it
\* sorts strictly before
RECURSIVE InsertSorted(_, _)
InsertSorted(sorted, node) ==
  IF sorted = <<>> THEN << node >>
  ELSE IF SortsBefore(node, Head(sorted)) THEN << node >> \o sorted
  ELSE << Head(sorted) >> \o InsertSorted(Tail(sorted), node)

RECURSIVE SortLevel(_)
SortLevel(nodes) ==
  IF nodes = <<>> THEN <<>>
  ELSE InsertSorted(SortLevel(SubSeq(nodes, 1, Len(nodes) - 1)), nodes[Len(nodes)])

RECURSIVE sortNodes(_)
sortNodes(nodes) ==
  LET sorted == SortLevel(nodes)
  IN  [i \in DOMAIN sorted |->
         [sorted[i] EXCEPT !.children =
            IF sorted[i].type = "folder" THEN sortNodes(@) ELSE <<>>]]

RECURSIVE InsertFiles(_, _)
InsertFiles(root, files) ==
  IF files = <<>> THEN root
  ELSE InsertFiles(InsertPath(root, SplitOn(Head(files).path, "/"), 1), Tail(files))

buildFileTree(files) == sortNodes(InsertFiles(<<>>, files))

\* ---- generateArtifact
\* PromptInput submits only while no generation is running
GenerateArtifact ==
  /\ ~client.isGenerating
  /\ client.replaced < MaxGenerations
  /\ client' = [client EXCEPT !.isGenerating = TRUE, !.error = ""]
  /\ UNCHANGED <<task, envs, origin, text, parsed, shown, preview, frame, wc, live,
                 wcPreview, reply>>

\* the response arrives: data.success with an artifact installs it, rebuilds
\* the tree and clears the execution state; anything else sets the error
generateArtifact(st, data) ==
  IF ~data.success \/ data.artifact.isNull
    THEN [st EXCEPT !.error = "Failed to generate artifact", !.isGenerating = FALSE]
    ELSE [st EXCEPT !.artifact = data.artifact,
                    !.fileTree = buildFileTree(data.artifact.files),
                    !.executionLogs = <<>>, !.logsFrom = <<>>,
                    !.executionResult = NoExecutionResult,
                    !.replaced = @ + 1,
                    !.isGenerating = FALSE]

GenerateReplies(artifacts) ==
  { [success |-> TRUE, artifact |-> a] : a \in artifacts }
    \cup { [success |-> FALSE, artifact |-> NullArtifact] }

GenerateResolves(artifacts) ==
  /\ client.isGenerating
  /\ \E data \in GenerateReplies(artifacts) : client' = generateArtifact(client, data)
  /\ UNCHANGED <<task, envs, origin, text, parsed, shown, preview, frame, wc, live,
                 wcPreview, reply>>

\* ---- updateFileContent(path, content)
updateFileContent(st, path, content) ==
  IF st.artifact.isNull THEN st
  ELSE [st EXCEPT !.artifact.files =
          [i \in DOMAIN st.artifact.files |->
             IF st.artifact.files[i].path = path
               THEN ClientFile(path, content) ELSE st.artifact.files[i]]]

UpdateFileContent ==
  /\ \E path \in ClientPaths, content \in { "x", "y" } :
       client' = updateFileContent(client, path, content)
  /\ UNCHANGED <<task, envs, origin, text, parsed, shown, preview, frame, wc, live,
                 wcPreview, reply>>

\* ---- setArtifact, the state setter the hook returns as it is
setArtifact(st, artifact) == [st EXCEPT !.artifact = artifact]

SetArtifact ==
  /\ \E artifact \in ClientArtifacts \cup { NullArtifact } :
       client' = setArtifact(client, artifact)
  /\ UNCHANGED <<task, envs, origin, text, parsed, shown, preview, frame, wc, live,
                 wcPreview, reply>>

ClientSpec ==
  Init /\ [][GenerateArtifact \/ GenerateResolves(ClientArtifacts)
              \/ UpdateFileContent \/ SetArtifact]_vars

\* ---- the execution stream
\* the object sendEvent serialises, as a JSON value
StreamChunk(type, content, timestamp) ==
  Obj(<< Member(<< "type" >>, Str(<< type >>)), Member(<< "content" >>, Str(content)),
         Member(<< "timestamp" >>, Num(timestamp)) >>)

\* sendEvent of the stream route: `data: ${JSON.stringify(chunk)}\n\n`
EventFrame(chunk) == << "data:", " " >> \o Stringify(chunk) \o << "\n", "\n" >>

RECURSIVE Wire(_)
Wire(chunks) == IF chunks = <<>> THEN <<>> ELSE EventFrame(Head(chunks)) \o Wire(Tail(chunks))

\* output of the process: text holding a blank line, text holding a quote
\* and a backslash
OutputChunks ==
  { StreamChunk("stdout", << "a", "\n", "\n", "b" >>, "0"),
    StreamChunk("stderr", << Quote, "\\", "n" >>, "1") }
DoneChunks ==
  { << StreamChunk("done", << "Execution complete" >>, "1") >>,
    << StreamChunk("done", << "Execution failed" >>, "1") >>,
    <<>> }
EmittedStreams ==
  { out \o done : out \in SeqUpTo(OutputChunks, MaxStreamChunks), done \in DoneChunks }
ShortStreams ==
  { << StreamChunk("stdout", << "hi" >>, "1") >> \o done : done \in DoneChunks }

\* buffer.split("\n\n"): the pieces between non-overlapping separators,
\* found from the left; separator is the index of the first one, or 0
IndexOfSeparator(s) ==
  LET hits == { j \in 1..(Len(s) - 1) : s[j] = "\n" /\ s[j + 1] = "\n" }
  IN  IF hits = {} THEN 0 ELSE CHOOSE j \in hits : \A h \in hits : j <= h

RECURSIVE SplitFrames(_)
SplitFramesAt(s, separator) ==
  IF separator = 0 THEN << s >>
  ELSE << SubSeq(s, 1, separator - 1) >> \o SplitFrames(SubSeq(s, separator + 2, Len(s)))
SplitFrames(s) == SplitFramesAt(s, IndexOfSeparator(s))

\* the body of `for (const line of lines)` for one line
processLine(st, line) ==
  IF Len(line) < 2 \/ SubSeq(line, 1, 2) # << "data:", " " >> THEN st
  ELSE LET data == JSONparse(SubSeq(line, 3, Len(line)))
       IN  IF data.threw THEN st
           ELSE IF Get(data.val, << "type" >>) # Str(<< "done" >>)
             THEN [st EXCEPT !.executionLogs = Append(@, data.val),
                             !.logsFrom = Append(@, st.stream.started)]
           ELSE [st EXCEPT !.executionLogs = Append(@, data.val),
                           !.logsFrom = Append(@, st.stream.started),
                           !.executionResult =
                              [set |-> TRUE,
                               success |-> Get(data.val, << "content" >>)
                                             = Str(<< "Execution complete" >>),
                               error |-> ""],
                           !.resultFrom = st.stream.started]

RECURSIVE processLines(_, _)
processLines(st, lines) ==
  IF lines = <<>> THEN st ELSE processLines(processLine(st, Head(lines)), Tail(lines))

\* one turn of the read loop with the decoded value: every piece but the
\* last is processed, the last stays in the buffer
readChunkNoCarry(st, value) ==
  LET lines == SplitFrames(value)
  IN  processLines([st EXCEPT !.stream.buffer = lines[Len(lines)]],
                   SubSeq(lines, 1, Len(lines) - 1))
readChunk(st, value) ==
  LET lines == SplitFrames(st.stream.buffer \o value)
  IN  processLines([st EXCEPT !.stream.buffer = lines[Len(lines)]],
                   SubSeq(lines, 1, Len(lines) - 1))

\* the catch block of executeArtifact
executeCatch(st, message) ==
  [st EXCEPT !.error = message,
             !.executionResult = [set |-> TRUE, success |-> FALSE, error |-> message],
             !.resultFrom = st.stream.started,
             !.isExecuting = FALSE,
             !.stream.pc = "failed"]

\* executeArtifact up to the fetch; the Run button is disabled while an
\* execution is running
ExecuteArtifact ==
  /\ ~client.isExecuting
  /\ ~client.artifact.isNull
  /\ client.executions < MaxExecutions
  /\ client' = [client EXCEPT !.isExecuting = TRUE, !.executionLogs = <<>>,
                              !.logsFrom = <<>>,
                              !.executionResult = NoExecutionResult, !.error = "",
                              !.executions = @ + 1,
                              !.stream = [NoStream EXCEPT !.pc = "fetching",
                                                          !.started = client.replaced]]
  /\ UNCHANGED <<task, envs, origin, text, parsed, shown, preview, frame, wc, live,
                 wcPreview, reply>>

\* the response is not ok
ExecuteFails ==
  /\ client.stream.pc = "fetching"
  /\ client' = executeCatch(client, "Execution failed")
  /\ UNCHANGED <<task, envs, origin, text, parsed, shown, preview, frame, wc, live,
                 wcPreview, reply>>

\* the response is ok and its body will carry the frames of the emitted chunks
StreamOpens(streams) ==
  /\ client.stream.pc = "fetching"
  /\ \E emitted \in streams :
       client' = [client EXCEPT !.stream.pc = "reading", !.stream.emitted = emitted,
                                !.stream.wire = Wire(emitted)]
  /\ UNCHANGED <<task, envs, origin, text, parsed, shown, preview, frame, wc, live,
                 wcPreview, reply>>

\* reader.read() resolves with the next bytes, however many
StreamRead ==
  /\ client.stream.pc = "reading"
  /\ \E n \in 1..Len(client.stream.wire) :
       client' = readChunk([client EXCEPT !.stream.wire = SubSeq(@, n + 1, Len(@))],
                           SubSeq(client.stream.wire, 1, n))
  /\ UNCHANGED <<task, envs, origin, text, parsed, shown, preview, frame, wc, live,
                 wcPreview, reply>>

\* reader.read() resolves with done
StreamEnds ==
  /\ client.stream.pc = "reading"
  /\ client.stream.wire = <<>>
  /\ client' = [client EXCEPT !.stream.pc = "ended", !.isExecuting = FALSE]
  /\ UNCHANGED <<task, envs, origin, text, parsed, shown, preview, frame, wc, live,
                 wcPreview, reply>>

OneFile == { ClientArtifact(<< ClientFile(<< "main.py" >>, "x") >>) }

StreamNext ==
  \/ GenerateArtifact
  \/ GenerateResolves(OneFile)
  \/ ExecuteArtifact
  \/ ExecuteFails
  \/ StreamOpens(ShortStreams)
  \/ StreamRead
  \/ StreamEnds

StreamSpec == Init /\ [][StreamNext]_vars

\* one artifact installed, every emitted stream, every split into reads
ReaderInit ==
  /\ task = [r \in Req |-> IdleTask]
  /\ envs = <<>>
  /\ origin = NoOrigin
  /\ text = <<>>
  /\ parsed = NotRun
  /\ shown = NotRun
  /\ preview = NoPreview
  /\ frame = NoFrame
  /\ wc = NoContainer
  /\ live = IdleRun
  /\ wcPreview = NoPanel
  /\ reply = NoReply
  /\ \E data \in GenerateReplies(OneFile) :
       /\ data.success
       /\ client = generateArtifact(NoClient, data)

ReaderNext ==
  \/ ExecuteArtifact
  \/ ExecuteFails
  \/ StreamOpens(EmittedStreams)
  \/ StreamRead
  \/ StreamEnds

ReaderSpec == ReaderInit /\ [][ReaderNext]_vars

\* ------------------------------------------- properties of the execute routes
\* C25: run-code is called with the runtime of the artifact's language: js for
\* node, python for python, bash for bash.
C25_RuntimeOfLanguage ==
  \A i \in CallsOf(1, "runCode") :
    task[1].calls[i].arg.language =
      CASE task[1].artifact.language = "node" -> "js"
        [] task[1].artifact.language = "python" -> "python"
        [] OTHER -> task[1].artifact.language

\* C22: the code passed to run-code is the content of the entry file: the
\* file the run command names, the first declared file when run is null.
C22_EntryFileIsRun ==
  \A i \in CallsOf(1, "runCode") :
    LET artifact == task[1].artifact
        named == { k \in DOMAIN artifact.files : artifact.files[k].path = artifact.run }
        entry == IF artifact.run = <<>> \/ named = {} THEN 1
                 ELSE CHOOSE k \in named : \A j \in named : k <= j
    IN  task[1].calls[i].arg.content = artifact.files[entry].content

\* ---------------------------------------- properties of the generate route
\* C23: a finished request is answered with success and the parsed artifact
\* exactly when the session has a user, the prompt is a non-empty string and
\* the answer of the LLM parses to an artifact, with or without usage; else
\* with success = false, no artifact and an error message.  The LLM is called
\* once for an authenticated request with a prompt and not at all otherwise.
C23_SuccessIffValidArtifact ==
  LET accepted == /\ reply.session = "user" /\ reply.body = "prompt"
                  /\ reply.llmCalls = 1
                  /\ Truthy(parseArtifact(reply.text))
  IN  /\ reply.llmCalls =
           (IF reply.pc \in { "llm", "done" } /\ reply.session = "user"
                 /\ reply.body = "prompt" THEN 1 ELSE 0)
      /\ reply.pc = "done" =>
           /\ reply.response.success <=> accepted
           /\ reply.response.success =>
                /\ reply.response.artifact = parseArtifact(reply.text)
                /\ reply.response.status = 200
           /\ ~reply.response.success =>
                /\ reply.response.artifact = Undefined
                /\ reply.response.error # ""
                /\ reply.response.status \in { 400, 401, 500 }

C23_Witness ==
  /\ reply.pc = "done" /\ reply.response.success
  /\ reply.usage = <<>> /\ reply.response.usage = <<>>
  /\ WellFormed(reply.response.artifact)

\* ---------------------------------------- properties of getWebContainer
Ended(st, c) == st.calls[c].pc \in { "returned", "threw", "session expired" }
LiveInstances ==
  { b \in DOMAIN wc.boots : wc.boots[b].state = "ok" }
    \cup (IF wc.foreign THEN { -1 } ELSE {})

\* a step in which call c ends
C26_Step(c) ==
  (~Ended(wc, c) /\ Ended(wc', c)) =>
    /\ (wc.calls[c].pc = "own boot"
        /\ wc.boots[wc.calls[c].awaiting].state = "single instance") =>
          IF wc.window.instance # 0
            THEN wc'.calls[c] = [pc |-> "returned", awaiting |-> 0,
                                 result |-> wc.window.instance]
            ELSE wc'.calls[c].pc = "session expired"
    /\ (\E d \in Calls : wc.calls[d].pc = "session expired") =>
          \/ wc'.calls[c].pc = "session expired"
          \/ /\ wc'.calls[c].pc = "returned"
             /\ wc'.calls[c].result \in
                  { wc.window.instance, wc.webContainerInstance } \ { 0 }

\* C26: a call whose boot fails with the single-instance error returns the
\* persisted instance if there is one and else throws the session-expired
\* error; once a call has thrown it, every call that ends later throws it too
\* or returns an instance that was already held, and at no time are two
\* containers live.
C26_SingleInstanceRecovery ==
  /\ [](/\ Cardinality(LiveInstances) <= 1
        /\ \A c \in Calls : wc.calls[c].pc = "returned" =>
                              wc.calls[c].result \in LiveInstances)
  /\ [][\A c \in Calls : C26_Step(c)]_vars

C26_Witness ==
  \E c, d \in Calls :
    /\ wc.calls[c].pc = "session expired"
    /\ wc.calls[d].pc = "returned" /\ wc.calls[d].result = -1

\* ------------------------------------------- properties of the playground client
\* C24: the file tree is rebuilt on every artifact change: after any sequence
\* of generateArtifact, updateFileContent and setArtifact calls it is the
\* tree built from the artifact's files, and it is empty when the artifact
\* is null.
C24_FileTreeFollowsArtifact ==
  client.fileTree = IF client.artifact.isNull THEN <<>>
                    ELSE buildFileTree(client.artifact.files)

\* C29: the reader reconstructs the emitted chunk sequence for every split
\* of the bytes into reads: while the stream of the current artifact is read
\* the log is the sequence of the chunks whose frames have arrived in full,
\* when the stream has ended the log is the emitted sequence, and the result
\* is a success exactly when a done chunk said "Execution complete".
C29_ReaderRebuildsChunks ==
  (client.stream.pc \in { "reading", "ended" } /\ client.stream.started = client.replaced)
    => /\ client.stream.buffer \o client.stream.wire
            = Wire(SubSeq(client.stream.emitted, Len(client.executionLogs) + 1,
                          Len(client.stream.emitted)))
       /\ client.executionLogs
            = SubSeq(client.stream.emitted, 1, Len(client.executionLogs))
       /\ client.stream.pc = "ended" => client.executionLogs = client.stream.emitted
       /\ (client.executionResult.set /\ client.executionResult.success)
            <=> \E i \in DOMAIN client.executionLogs :
                  client.executionLogs[i] = StreamChunk("done", << "Execution complete" >>, "1")
       /\ client.executionResult.set
            <=> \E i \in DOMAIN client.executionLogs :
                  Get(client.executionLogs[i], << "type" >>) = Str(<< "done" >>)
C29_Witness ==
  /\ client.stream.pc = "ended"
  /\ client.stream.started = client.replaced
  /\ Len(client.stream.emitted) = MaxStreamChunks + 1
  /\ client.executionLogs = client.stream.emitted
  /\ client.executionLogs[1] = StreamChunk("stdout", << "a", "\n", "\n", "b" >>, "0")
  /\ client.executionResult.set /\ client.executionResult.success

\* C30: the execution log and the execution result hold nothing produced by
\* an execution started before the current artifact was installed.
C30_NoOutputOfReplacedArtifact ==
  /\ \A i \in DOMAIN client.logsFrom : client.logsFrom[i] = client.replaced
  /\ client.executionResult.set => client.resultFrom = client.replaced

====
